---------------------------- MODULE Spec2Model ----------------------------
(***************************************************************************)
(* SmartCue: the floating overlay window, its incognito / visibility      *)
(* attributes, the manual-movement override and the desktop follower.     *)
(*                                                                         *)
(* The repository holds two revisions of the WindowManager class: the one *)
(* in src/services/WindowManager.js and the one that follows IPCManager   *)
(* in src/services/IPCManager.js (lines 337-1000).  The variable wmSource *)
(* says which of the two is loaded; it is chosen once and never changes.  *)
(*                                                                         *)
(* Time is counted in milliseconds and advances in steps of Quantum.      *)
(* Opacity is counted in percent (0.8 is 80, 1.0 is 100).                  *)
(***************************************************************************)
EXTENDS Integers, FiniteSets, Sequences, TLC

\* ------------------------------------------------------------ configuration
WINDOW_WIDTH == 400
WINDOW_HEIGHT == 100
DETECTION_INTERVAL == 1000
REPOSITION_COOLDOWN == 2000
MANUAL_MOVEMENT_TIMEOUT == 5000
RESTART_DELAY == 1000
STEP_SIZE == 50
MOUSE_MOVEMENT_THRESHOLD == 500
INCOGNITO_OPACITY == 80
FULL_OPACITY == 100
TOP_MARGIN == 50

\* ------------------------------------------------------------------ bounds
MaxMoves == 1
MaxInit == 2
MaxSettings == 2
MaxPending == 2
MaxSaves == 2
MaxClock == 1

Quantum == DETECTION_INTERVAL

Legacy == "WindowManager.js"
Current == "IPCManager.js"
Sources == {Legacy, Current}

Directions == {"left", "right", "up", "down"}

\* ------------------------------------------------------------- arithmetic
Max(a, b) == IF a >= b THEN a ELSE b
Min(a, b) == IF a <= b THEN a ELSE b
Abs(a) == IF a >= 0 THEN a ELSE 0 - a

\* Math.round(n / 2) for an integer n: halves round towards +infinity.
RoundHalf(n) == (n + 1) \div 2

\* ---------------------------------------------------------------- displays
Display(x, y, w, h) == [x |-> x, y |-> y, width |-> w, height |-> h]
D0 == Display(0, 0, 1920, 1080)
D1 == Display(1920, 0, 1920, 1080)
Displays == {D0, D1}

CursorPoints == {[x |-> 0, y |-> 0], [x |-> 600, y |-> 0]}

\* ------------------------------------------------------- geometry policy
\* The target of createWindow and of followToCurrentDesktop.
CenteredTop(display, winWidth) ==
  [x |-> RoundHalf(display.width - winWidth), y |-> TOP_MARGIN]

\* calculateNewPosition without its closing clamp ("Ensure window stays within
\* desktop bounds"): only the step of the chosen direction is limited.
calculateNewPosition_unclamped(direction, currentPosition, desktopBounds, currentBounds) ==
  LET maxX == desktopBounds.x + desktopBounds.width - currentBounds.width
      maxY == desktopBounds.y + desktopBounds.height - currentBounds.height
  IN [x |-> CASE direction = "left" -> Max(desktopBounds.x, currentPosition.x - STEP_SIZE)
              [] direction = "right" -> Min(maxX, currentPosition.x + STEP_SIZE)
              [] OTHER -> currentPosition.x,
      y |-> CASE direction = "up" -> Max(desktopBounds.y, currentPosition.y - STEP_SIZE)
              [] direction = "down" -> Min(maxY, currentPosition.y + STEP_SIZE)
              [] OTHER -> currentPosition.y]

calculateNewPosition(direction, currentPosition, desktopBounds, currentBounds) ==
  LET maxX == desktopBounds.x + desktopBounds.width - currentBounds.width
      maxY == desktopBounds.y + desktopBounds.height - currentBounds.height
      stepX == CASE direction = "left" -> Max(desktopBounds.x, currentPosition.x - STEP_SIZE)
                 [] direction = "right" -> Min(maxX, currentPosition.x + STEP_SIZE)
                 [] OTHER -> currentPosition.x
      stepY == CASE direction = "up" -> Max(desktopBounds.y, currentPosition.y - STEP_SIZE)
                 [] direction = "down" -> Min(maxY, currentPosition.y + STEP_SIZE)
                 [] OTHER -> currentPosition.y
  IN [x |-> Max(desktopBounds.x, Min(maxX, stepX)),
      y |-> Max(desktopBounds.y, Min(maxY, stepY))]

validateBounds(desktopBounds, currentBounds) ==
  /\ desktopBounds.width # 0
  /\ desktopBounds.height # 0
  /\ currentBounds.width > 0
  /\ currentBounds.height > 0

\* validatePosition checking the types only, not the signs.
validatePosition_anySign(position) == position.x \in Int /\ position.y \in Int

validatePosition(position) == position.x >= 0 /\ position.y >= 0

\* ------------------------------------------------- the platform window
\* A BrowserWindow as the code drives it.  level is the always-on-top level
\* ("normal" when always-on-top is off, "floating" when it is set without
\* a level).
NoWindow ==
  [exists |-> FALSE, visible |-> FALSE, contentProtection |-> FALSE,
   alwaysOnTop |-> FALSE, level |-> "normal", skipTaskbar |-> FALSE,
   opacity |-> FULL_OPACITY, focusable |-> TRUE, x |-> 0, y |-> 0]

setContentProtection(w, b) == [w EXCEPT !.contentProtection = b]
setAlwaysOnTop(w, b, lvl) ==
  [w EXCEPT !.alwaysOnTop = b, !.level = IF b THEN lvl ELSE "normal"]
setSkipTaskbar(w, b) == [w EXCEPT !.skipTaskbar = b]
setOpacity(w, o) == [w EXCEPT !.opacity = o]
setFocusable(w, b) == [w EXCEPT !.focusable = b]
setPosition(w, p) == [w EXCEPT !.x = p.x, !.y = p.y]
show(w) == [w EXCEPT !.visible = TRUE]
showInactive(w) == [w EXCEPT !.visible = TRUE]
hide(w) == [w EXCEPT !.visible = FALSE]

\* new BrowserWindow({...}) followed by applyMacOSOptimizations; the
\* application only creates the window on macOS (checkSystemRequirements).
NewWindow(src, display) ==
  LET p == CenteredTop(display, WINDOW_WIDTH)
  IN [exists |-> TRUE,
      visible |-> (src = Legacy),
      contentProtection |-> FALSE,
      alwaysOnTop |-> TRUE, level |-> "screen-saver",
      skipTaskbar |-> FALSE,
      opacity |-> FULL_OPACITY,
      focusable |-> (src = Legacy),
      x |-> p.x, y |-> p.y]

\* ------------------------------------------------------- WindowManager
enableIncognitoMode(w, src) ==
  IF ~w.exists THEN w
  ELSE LET a == setOpacity(setSkipTaskbar(setAlwaysOnTop(
                  setContentProtection(w, TRUE), FALSE, "normal"), TRUE),
                  INCOGNITO_OPACITY)
       IN IF src = Current THEN setFocusable(a, FALSE) ELSE a

disableIncognitoMode(w, src) ==
  IF ~w.exists THEN w
  ELSE LET a == setOpacity(setSkipTaskbar(setAlwaysOnTop(
                  setContentProtection(w, FALSE), TRUE, "screen-saver"), FALSE),
                  FULL_OPACITY)
       IN IF src = Current THEN setFocusable(a, FALSE) ELSE a

\* The attributes of the settings window: as new BrowserWindow({...}) in
\* createSettingsWindow sets them, and with no settings window.
NoSettingsWindow ==
  [contentProtection |-> FALSE, alwaysOnTop |-> FALSE, level |-> "normal",
   skipTaskbar |-> FALSE, opacity |-> FULL_OPACITY, focusable |-> TRUE]

enableIncognitoModeForSettings(sw) ==
  setFocusable(setOpacity(setSkipTaskbar(setAlwaysOnTop(
    setContentProtection(sw, TRUE), FALSE, "normal"), TRUE),
    INCOGNITO_OPACITY), FALSE)

disableIncognitoModeForSettings(sw) ==
  setFocusable(setOpacity(setSkipTaskbar(setAlwaysOnTop(
    setContentProtection(sw, FALSE), TRUE, "screen-saver"), FALSE),
    FULL_OPACITY), TRUE)

\* createSettingsWindow's new window: the incognito setters are applied to
\* it whatever isIncognitoMode is.
NewSettingsWindow ==
  setFocusable(setOpacity(setSkipTaskbar(setAlwaysOnTop(
    setContentProtection(NoSettingsWindow, TRUE), FALSE, "normal"), TRUE),
    INCOGNITO_OPACITY), FALSE)

\* The attribute block with the normal branch leaving the opacity as it is.
applyCurrentMode_keepsOpacity(w, incognito, src) ==
  IF incognito THEN enableIncognitoMode(w, src)
  ELSE setSkipTaskbar(setAlwaysOnTop(
         setContentProtection(w, FALSE), TRUE, "screen-saver"), FALSE)

\* The attribute block shared by showWindow and showWindowWithoutFocus.
applyCurrentMode(w, incognito, src) ==
  IF incognito THEN enableIncognitoMode(w, src)
  ELSE setOpacity(setSkipTaskbar(setAlwaysOnTop(
         setContentProtection(w, FALSE), TRUE, "screen-saver"), FALSE),
         FULL_OPACITY)

\* hideWindow written as a toggle: a window already hidden is shown again.
hideWindow_togglesVisibility(w) ==
  IF ~w.exists THEN w
  ELSE IF ~w.visible THEN show(w)
  ELSE hide(setOpacity(setSkipTaskbar(setAlwaysOnTop(
         setContentProtection(w, TRUE), FALSE, "normal"), TRUE), 0))

hideWindow(w) ==
  IF ~w.exists THEN w
  ELSE hide(setOpacity(setSkipTaskbar(setAlwaysOnTop(
         setContentProtection(w, TRUE), FALSE, "normal"), TRUE), 0))

showWindow(w, incognito, src) ==
  IF ~w.exists THEN w
  ELSE LET a == show(applyCurrentMode(w, incognito, src))
       IN IF src = Current THEN setFocusable(a, FALSE) ELSE a

showWindowWithoutFocus(w, incognito) ==
  IF ~w.exists THEN w
  ELSE showInactive(setFocusable(applyCurrentMode(w, incognito, Current), FALSE))

\* What toggleVisibility uses to bring the window up.
showFor(w, incognito, src) ==
  IF src = Current THEN showWindowWithoutFocus(w, incognito)
  ELSE showWindow(w, incognito, src)

\* ------------------------------------------------------------- the state
VARIABLES
  wmSource,               \* which revision of WindowManager is loaded
  mainWindow,             \* WindowManager.mainWindow (NoWindow is null)
  isIncognitoMode,
  isManualMovement,
  manualMovementTimeout,  \* the stored timer handle; 0 is null
  manualTimers,           \* pending manual-override timeouts: [id, remaining]
  lastKnownPosition,
  detectionInterval,      \* time to the next tick; -1 when no interval runs
  repositionCooldown,
  cooldownTimers,         \* remaining times of the pending cooldown timeouts
  lastMousePosition,
  lastKnownDesktop,       \* <<>> is null
  screenListeners,        \* how many times the screen listeners are installed
  primaryDisplay,         \* screen.getPrimaryDisplay().bounds
  inits,                  \* calls of initialize so far
  moves,                  \* calls of moveWindow since the window was last centred
  calls,                  \* what the last handler ran, of the calls observed
  sinceManual,            \* time since the last setManualMovementMode; -1: never
  sinceReposition,        \* time since the last automatic reposition; -1: never
  gDisplay,               \* geometry: the display the position is computed for
  gBounds,                \* geometry: mainWindow.getBounds() width and height
  gPosition,              \* geometry: mainWindow.getPosition()
  gStart,                 \* geometry: the position before the last operation
  gDirection,             \* geometry: the last operation
  gResult,                \* geometry: the position the last operation computed
  shortcutManager,        \* WindowManager.shortcutManager is set (not null)
  registeredShortcuts,    \* ShortcutManager.registeredShortcuts
  shortcutCallbacks,      \* ShortcutManager.shortcutCallbacks (its keys)
  shortcutsDisabled,      \* ShortcutManager.shortcutsDisabled
  takenShortcuts,         \* accelerators globalShortcut.register returns false for
  exited,                 \* process.exit was called
  settingsWindow,         \* WindowManager.settingsWindow: its handle; 0 is null
  settingsCreated,        \* settings windows created so far (the last handle)
  previousFocusedWindow,  \* the stored focus snapshot: a handle; 0 is null
  pendingRestores,        \* deferred focus restorations not yet run
  settingsAttributes,     \* the attributes last set on the settings window
  clock,                  \* IPCManager: what new Date() reads, in milliseconds
  files,                  \* the file system: the files, [dir, name, data]
  saves,                  \* IPCManager: saves so far that returned success
  pendingSaves,           \* IPCManager: handler invocations waiting at an await
  notesDirectory,         \* IPCManager.notesDirectory
  directories,            \* the file system: the directories that exist
  savedPaths,             \* the [dir, name] of the saves that returned success
  invocations,            \* IPCManager: how many note handlers have been invoked
  restartTimers,          \* AIAssistantApp.restart: pending timeouts, [id, remaining]
  styleDeclared,          \* the windows whose page has `const style` declared
  settingsLoading,        \* the settings page has not fired did-finish-load yet
  unhandledRejections,    \* rejected promises nobody handles, not yet reported
  cycle                   \* the operations of the show/reposition cycle the
                          \* last handler ran, in order; <<>> if it ran none

wmVars == <<mainWindow, isIncognitoMode, isManualMovement, manualMovementTimeout,
            manualTimers, lastKnownPosition>>
dfVars == <<detectionInterval, repositionCooldown, cooldownTimers,
            lastMousePosition, lastKnownDesktop, screenListeners>>
envVars == <<primaryDisplay>>
appVars == <<restartTimers>>
pageVars == <<styleDeclared, settingsLoading, unhandledRejections>>
obsVars == <<calls, sinceManual, sinceReposition>>
geomVars == <<gDisplay, gBounds, gPosition, gStart, gDirection, gResult>>
focusRest == <<settingsWindow, settingsCreated, previousFocusedWindow,
              pendingRestores>>
focusVars == <<focusRest, settingsAttributes>>
saveVars == <<clock, files, saves, pendingSaves, notesDirectory, directories, savedPaths,
             invocations>>
smVars == <<shortcutManager, registeredShortcuts, shortcutCallbacks, shortcutsDisabled,
            takenShortcuts>>
vars == <<wmSource, wmVars, dfVars, envVars, appVars, pageVars, inits, moves, obsVars, geomVars, saveVars,
          smVars, exited, focusVars, cycle>>

SinceManualCap == MANUAL_MOVEMENT_TIMEOUT
SinceRepositionCap == REPOSITION_COOLDOWN

isWindowValid == mainWindow.exists

\* `${x}-${y}-${width}-${height}` of the primary display's bounds.
getCurrentDesktop(display) == <<display.x, display.y, display.width, display.height>>

GeomIdle ==
  /\ gDisplay = D0
  /\ gBounds = [width |-> WINDOW_WIDTH, height |-> WINDOW_HEIGHT]
  /\ gPosition = [x |-> 0, y |-> 0]
  /\ gStart = [x |-> 0, y |-> 0]
  /\ gDirection = "none"
  /\ gResult = [x |-> 0, y |-> 0]

\* The services as their constructors leave them, before app.whenReady.
Constructed ==
  /\ mainWindow = NoWindow
  /\ isIncognitoMode = FALSE
  /\ isManualMovement = FALSE
  /\ manualMovementTimeout = 0
  /\ manualTimers = {}
  /\ lastKnownPosition = [x |-> 0, y |-> 50]
  /\ detectionInterval = -1
  /\ repositionCooldown = FALSE
  /\ cooldownTimers = {}
  /\ lastMousePosition = [x |-> 0, y |-> 0]
  /\ lastKnownDesktop = <<>>
  /\ screenListeners = 0
  /\ primaryDisplay = D0
  /\ inits = 0
  /\ moves = 0
  /\ calls = {}
  /\ sinceManual = -1
  /\ sinceReposition = -1
  /\ registeredShortcuts = {}
  /\ shortcutCallbacks = {}
  /\ shortcutsDisabled = FALSE
  /\ takenShortcuts = {}
  /\ exited = FALSE
  /\ settingsWindow = 0
  /\ settingsCreated = 0
  /\ previousFocusedWindow = 0
  /\ pendingRestores = 0
  /\ settingsAttributes = NoSettingsWindow
  /\ clock = 0
  /\ files = {}
  /\ saves = 0
  /\ pendingSaves = {}
  /\ notesDirectory = "conversations"
  /\ directories = {}
  /\ savedPaths = {}
  /\ invocations = 0
  /\ restartTimers = {}
  /\ styleDeclared = {}
  /\ settingsLoading = FALSE
  /\ unhandledRejections = 0
  /\ cycle = <<>>

\* AIAssistantApp's constructor: new WindowManager() is given no shortcut
\* manager.
Init ==
  /\ wmSource \in Sources
  /\ shortcutManager = FALSE
  /\ Constructed
  /\ GeomIdle

\* ------------------------------------------------------- timers
clearTimeout(timers, handle) == {t \in timers : t.id # handle}

\* The handle setTimeout returns: one no pending timer carries.
FreshId(timers) ==
  CHOOSE i \in 1..(Cardinality(timers) + 1) :
    /\ \A t \in timers : t.id # i
    /\ \A j \in 1..(i - 1) : \E t \in timers : t.id = j

\* setManualMovementMode without its clearTimeout: the earlier countdown
\* stays pending beside the new one.
setManualMovementMode_keepsPending(timers, handle) ==
  LET id == FreshId(timers)
  IN [timers |-> timers \cup {[id |-> id, remaining |-> MANUAL_MOVEMENT_TIMEOUT]},
      handle |-> id,
      cancelled |-> FALSE]

setManualMovementMode(timers, handle) ==
  LET kept == IF handle # 0 THEN clearTimeout(timers, handle) ELSE timers
      id == FreshId(kept)
  IN [timers |-> kept \cup {[id |-> id, remaining |-> MANUAL_MOVEMENT_TIMEOUT]},
      handle |-> id,
      cancelled |-> kept # timers]

setRepositionCooldown(timers) == timers \cup {REPOSITION_COOLDOWN}

\* ------------------------------------------------------- focus snapshot
\* Window handles: 0 is null, MainHandle the main window, 1, 2, ... the
\* settings windows in the order of their creation.
MainHandle == -1

\* `this.settingsWindow.isDestroyed()` for a handle: a settings window is
\* destroyed once it is closed, and 'closed' sets settingsWindow to null.
isDestroyed(h) ==
  IF h = MainHandle THEN ~mainWindow.exists ELSE h # settingsWindow

\* What BrowserWindow.getFocusedWindow() can return: null, or one of the
\* application's own live windows.
FocusedWindows ==
  {0} \cup (IF mainWindow.exists THEN {MainHandle} ELSE {})
      \cup (IF settingsWindow # 0 THEN {settingsWindow} ELSE {})

\* storeFocusedWindow without the comparison with the main window.
storeFocusedWindow_storesAny(previous, focused) ==
  IF focused # 0 THEN focused ELSE previous

\* storeFocusedWindow: the new value of previousFocusedWindow.
storeFocusedWindow(previous, focused) ==
  IF focused # 0 /\ focused # MainHandle THEN focused ELSE previous

\* restoreFocusedWindow: whether it schedules the deferred focus() call.
restoreFocusedWindow(previous) == previous # 0 /\ ~isDestroyed(previous)

\* The operations of one cycle, in the order the code runs them.
\* The tail of enableIncognitoMode / disableIncognitoMode in the current
\* revision: an open settings window is given the same mode.
settingsAfterEnable ==
  IF wmSource = Current /\ settingsWindow # 0
  THEN enableIncognitoModeForSettings(settingsAttributes)
  ELSE settingsAttributes

settingsAfterDisable ==
  IF wmSource = Current /\ settingsWindow # 0
  THEN disableIncognitoModeForSettings(settingsAttributes)
  ELSE settingsAttributes

\* The attribute block of showWindow / showWindowWithoutFocus, as far as
\* the settings window goes: only its incognito branch calls
\* enableIncognitoMode.
SettingsShown ==
  settingsAttributes' = IF isIncognitoMode THEN settingsAfterEnable
                        ELSE settingsAttributes

ShowWithoutFocusCycle ==
  <<"storeFocusedWindow", "setAttributes", "setFocusable", "showInactive", "blur",
    "restoreFocusedWindow">>

MoveCycle(src) ==
  IF src = Current
  THEN <<"setPosition", "setAlwaysOnTop">> \o ShowWithoutFocusCycle
  ELSE <<"setPosition", "setAlwaysOnTop", "show", "moveTop">>

FollowCycle(incognito) ==
  (IF incognito THEN <<"setAttributes">> ELSE <<>>)
  \o <<"setPosition", "setAlwaysOnTop", "show", "focus", "moveTop">>

\* ------------------------------------------------------- DesktopFollower
\* The part of the state followToCurrentDesktop and ensureWindowOnTop work on.
Follower(w, cd, timers, lkp, cs, since, mv) ==
  [w |-> w, cooldown |-> cd, timers |-> timers, lkp |-> lkp, calls |-> cs,
   since |-> since, moves |-> mv]

\* The early returns of followToCurrentDesktop, without the cooldown check.
followSkips_ignoresCooldown(w, cooldown) == ~w.exists \/ ~w.visible

\* The early returns of followToCurrentDesktop, without the visibility check.
followSkips_ignoresVisibility(w, cooldown) == ~w.exists \/ cooldown

\* The early returns of followToCurrentDesktop.
followSkips(w, cooldown) == ~w.exists \/ ~w.visible \/ cooldown

followToCurrentDesktop(f, display, incognito, src) ==
  LET called == [f EXCEPT !.calls = @ \cup {"followToCurrentDesktop"}]
      target == CenteredTop(display, WINDOW_WIDTH)
      styled == IF incognito THEN enableIncognitoMode(f.w, src) ELSE f.w
      moved == show(setAlwaysOnTop(setPosition(styled, target), TRUE, "screen-saver"))
  IN IF followSkips(f.w, f.cooldown)
     THEN called
     ELSE [called EXCEPT !.w = moved,
                         !.calls = @ \cup {"setPosition", "show", "focus"},
                         !.lkp = target,
                         !.cooldown = TRUE,
                         !.timers = setRepositionCooldown(@),
                         !.since = 0,
                         !.moves = 0]

\* ensureWindowOnTop returning while the reposition cooldown is armed.
ensureWindowOnTop_gatedByCooldown(f) ==
  IF ~f.w.exists \/ ~f.w.visible \/ f.cooldown
  THEN f
  ELSE [f EXCEPT !.w = setAlwaysOnTop(@, TRUE, "screen-saver"),
                 !.calls = @ \cup {"ensureWindowOnTop"}]

ensureWindowOnTop(f) ==
  IF ~f.w.exists \/ ~f.w.visible
  THEN f
  ELSE [f EXCEPT !.w = setAlwaysOnTop(@, TRUE, "screen-saver"),
                 !.calls = @ \cup {"ensureWindowOnTop"}]

\* hasDesktopChanged: what it returns and what it stores.
mouseMoved(now, last) ==
  \/ Abs(now.x - last.x) > MOUSE_MOVEMENT_THRESHOLD
  \/ Abs(now.y - last.y) > MOUSE_MOVEMENT_THRESHOLD

desktopChanged(display, lastDesktop) == lastDesktop # getCurrentDesktop(display)

\* followToCurrentDesktop run n times in a row (one run per installed listener).
RECURSIVE followTimes(_, _, _, _, _)
followTimes(n, f, display, incognito, src) ==
  IF n = 0 THEN f
  ELSE followTimes(n - 1, followToCurrentDesktop(f, display, incognito, src),
                   display, incognito, src)

CurrentFollower(cs) ==
  Follower(mainWindow, repositionCooldown, cooldownTimers, lastKnownPosition, cs,
           sinceReposition, moves)

\* Stores what a run of the follower left behind.
StoreFollowerFields(f) ==
  /\ mainWindow' = f.w
  /\ repositionCooldown' = f.cooldown
  /\ cooldownTimers' = f.timers
  /\ lastKnownPosition' = f.lkp
  /\ calls' = f.calls
  /\ sinceReposition' = f.since
  /\ moves' = f.moves

StoreFollower(f) ==
  /\ StoreFollowerFields(f)
  /\ cycle' = IF "setPosition" \in f.calls THEN FollowCycle(isIncognitoMode)
              ELSE <<>>

\* followToCurrentDesktop, as far as the settings window goes: past its
\* early returns it calls enableIncognitoMode when the flag is set.
SettingsFollowed ==
  settingsAttributes' =
    IF /\ isIncognitoMode
       /\ "followToCurrentDesktop" \in calls'
       /\ ~followSkips(mainWindow, repositionCooldown)
    THEN settingsAfterEnable
    ELSE settingsAttributes

\* ------------------------------------------------------- ShortcutManager
\* APP_CONFIG.SHORTCUTS, by key.
Shortcuts ==
  {"TOGGLE_INCOGNITO", "TOGGLE_VISIBILITY", "MOVE_LEFT", "MOVE_RIGHT",
   "MOVE_UP", "MOVE_DOWN"}

ShortcutManager ==
  [registered |-> registeredShortcuts, callbacks |-> shortcutCallbacks,
   disabled |-> shortcutsDisabled]

StoreShortcuts(sm) ==
  /\ registeredShortcuts' = sm.registered
  /\ shortcutCallbacks' = sm.callbacks
  /\ shortcutsDisabled' = sm.disabled
  /\ UNCHANGED takenShortcuts

\* globalShortcut.register over a set of accelerators: those it returns
\* true for.  It returns false for an accelerator another application
\* holds (taken).
register(accelerators, taken) == accelerators \ taken

\* registerAllShortcuts: registerShortcut adds an accelerator to
\* registeredShortcuts only when globalShortcut.register returned true.
\* The manager a WindowManager can be given stores each callback and
\* registers it unless the shortcuts are disabled; the one AIAssistantApp
\* builds only registers.
registerAllShortcuts(sm, wired, taken) ==
  IF wired
  THEN [sm EXCEPT !.callbacks = @ \cup Shortcuts,
                  !.registered = IF sm.disabled THEN @
                                 ELSE @ \cup register(Shortcuts, taken)]
  ELSE [sm EXCEPT !.registered = @ \cup register(Shortcuts, taken)]

disableAllShortcuts(sm, taken) ==
  IF sm.disabled THEN sm
  ELSE [sm EXCEPT !.registered = IF "TOGGLE_VISIBILITY" \in sm.callbacks
                                 THEN register({"TOGGLE_VISIBILITY"}, taken)
                                 ELSE {},
                  !.disabled = TRUE]

enableAllShortcuts(sm, taken) ==
  IF ~sm.disabled THEN sm
  ELSE [sm EXCEPT !.registered = register(sm.callbacks, taken), !.disabled = FALSE]

\* unregisterAllShortcuts: the stored callbacks and the disabled flag stay.
unregisterAllShortcuts(sm) == [sm EXCEPT !.registered = {}]

\* The tail of hideWindow and of showWindow / showWindowWithoutFocus:
\* if (this.shortcutManager) ...
shortcutsOnHide(sm, wired, taken) ==
  IF wired THEN disableAllShortcuts(sm, taken) ELSE sm
shortcutsOnShow(sm, wired, taken) ==
  IF wired THEN enableAllShortcuts(sm, taken) ELSE sm

\* The record of a call of hideWindow or of a show operation: its name,
\* and whether the handler before it ended in hideWindow.
After(name, previous) ==
  IF "hideWindow" \in previous THEN {name, "afterHideWindow"} ELSE {name}

\* storeFocusedWindow ... restoreFocusedWindow around a show, as
\* showWindowWithoutFocus runs them; focused is what getFocusedWindow returns.
\* cs is what the handler records besides.
FocusCycle(cs) ==
  \E focused \in FocusedWindows :
    LET stored == storeFocusedWindow(previousFocusedWindow, focused)
        scheduled == IF restoreFocusedWindow(stored) THEN 1 ELSE 0
    IN /\ pendingRestores + scheduled <= MaxPending
       /\ calls' = cs
       /\ previousFocusedWindow' = stored
       /\ pendingRestores' = pendingRestores + scheduled
       /\ SettingsShown
       /\ UNCHANGED <<settingsWindow, settingsCreated>>

\* ---------------------------------------------------------------- actions
\* AIAssistantApp.initialize: createWindow, registerAllShortcuts, then
\* startDetection.  It does not look at the window it may already have:
\* createWindow replaces the reference, and the window it held stays as
\* it was.  The new window loads its page afresh.
initialize ==
  /\ inits' = inits + 1
  /\ moves' = 0
  /\ mainWindow' = NewWindow(wmSource, primaryDisplay)
  /\ lastKnownPosition' = CenteredTop(primaryDisplay, WINDOW_WIDTH)
  /\ detectionInterval' = DETECTION_INTERVAL
  /\ screenListeners' = screenListeners + 1
  /\ calls' = {}
  /\ cycle' = <<>>
  /\ StoreShortcuts(registerAllShortcuts(ShortcutManager, shortcutManager, takenShortcuts))
  /\ styleDeclared' = styleDeclared \ {"main"}
  /\ UNCHANGED <<wmSource, isIncognitoMode, isManualMovement, manualMovementTimeout,
                 manualTimers, repositionCooldown, cooldownTimers, lastMousePosition,
                 lastKnownDesktop, envVars, settingsLoading, unhandledRejections,
                 sinceManual, sinceReposition, geomVars, saveVars, shortcutManager,
                 exited, focusVars>>

\* initialize as app.whenReady calls it, or handleActivate when no valid
\* window exists.
Initialize ==
  /\ ~isWindowValid
  /\ inits + Cardinality(restartTimers) < MaxInit
  /\ initialize
  /\ UNCHANGED appVars

\* AIAssistantApp.handleActivate with a valid window: showWindow.
Activate ==
  /\ isWindowValid
  /\ mainWindow' = showWindow(mainWindow, isIncognitoMode, wmSource)
  /\ StoreShortcuts(shortcutsOnShow(ShortcutManager, shortcutManager, takenShortcuts))
  /\ calls' = After("showWindow", calls)
  /\ cycle' = <<>>
  /\ SettingsShown
  /\ UNCHANGED <<wmSource, isIncognitoMode, isManualMovement, manualMovementTimeout,
                 manualTimers, lastKnownPosition, dfVars, envVars, appVars, pageVars, inits, moves,
                 sinceManual, sinceReposition, geomVars, saveVars, shortcutManager, exited, focusRest>>

\* WindowManager.toggleIncognitoMode (shortcut, menu item or IPC request).
toggleIncognitoMode(w, incognito, src) ==
  IF ~w.exists THEN [w |-> w, incognito |-> incognito]
  ELSE [w |-> IF ~incognito THEN enableIncognitoMode(w, src)
              ELSE disableIncognitoMode(w, src),
        incognito |-> ~incognito]

ToggleIncognito ==
  /\ inits > 0
  /\ LET r == toggleIncognitoMode(mainWindow, isIncognitoMode, wmSource)
     IN /\ mainWindow' = r.w
        /\ isIncognitoMode' = r.incognito
  /\ calls' = {}
  /\ cycle' = <<>>
  /\ settingsAttributes' = IF ~mainWindow.exists THEN settingsAttributes
                           ELSE IF ~isIncognitoMode THEN settingsAfterEnable
                           ELSE settingsAfterDisable
  /\ UNCHANGED <<wmSource, isManualMovement, manualMovementTimeout, manualTimers,
                 lastKnownPosition, dfVars, envVars, appVars, pageVars, inits, moves, sinceManual,
                 sinceReposition, geomVars, saveVars, smVars, exited, focusRest>>

\* WindowManager.toggleVisibility.
toggleVisibility(w, incognito, src) ==
  IF ~w.exists THEN w
  ELSE IF w.visible THEN hideWindow(w)
  ELSE showFor(w, incognito, src)

ToggleVisibility ==
  /\ inits > 0
  /\ mainWindow' = toggleVisibility(mainWindow, isIncognitoMode, wmSource)
  /\ IF ~mainWindow.exists
     THEN /\ calls' = {}
          /\ cycle' = <<>>
          /\ StoreShortcuts(ShortcutManager)
          /\ UNCHANGED focusVars
     ELSE IF mainWindow.visible
     THEN /\ calls' = After("hideWindow", calls)
          /\ cycle' = <<>>
          /\ StoreShortcuts(shortcutsOnHide(ShortcutManager, shortcutManager, takenShortcuts))
          /\ UNCHANGED focusVars
     ELSE /\ StoreShortcuts(shortcutsOnShow(ShortcutManager, shortcutManager, takenShortcuts))
          /\ IF wmSource = Current
             THEN /\ cycle' = ShowWithoutFocusCycle
                  /\ FocusCycle(After("showWindow", calls))
             ELSE /\ cycle' = <<>>
                  /\ calls' = After("showWindow", calls)
                  /\ UNCHANGED focusVars
  /\ UNCHANGED <<wmSource, isIncognitoMode, isManualMovement, manualMovementTimeout,
                 manualTimers, lastKnownPosition, dfVars, envVars, appVars, pageVars, inits, moves,
                 sinceManual, sinceReposition, geomVars, saveVars, shortcutManager, exited>>

\* The window part of moveWindow once the new position is accepted.
placeWindow(w, p, incognito, src) ==
  LET a == setAlwaysOnTop(setPosition(w, p), TRUE, "screen-saver")
  IN IF src = Current THEN showWindowWithoutFocus(a, incognito) ELSE show(a)

\* moveWindow with setManualMovementMode moved behind the two validations: a
\* rejected move leaves the flag and the countdown as they were.
MoveWindow_validatesFirst(direction) ==
  /\ inits > 0
  /\ moves < MaxMoves
  /\ moves' = moves + 1
  /\ IF ~mainWindow.exists
     THEN /\ calls' = {}
          /\ cycle' = <<>>
          /\ UNCHANGED <<wmVars, sinceManual, registeredShortcuts,
                         shortcutCallbacks, shortcutsDisabled, takenShortcuts,
                         focusVars>>
     ELSE LET armed == setManualMovementMode(manualTimers, manualMovementTimeout)
              currentPosition == [x |-> mainWindow.x, y |-> mainWindow.y]
              currentBounds == [width |-> WINDOW_WIDTH, height |-> WINDOW_HEIGHT]
              newPosition == calculateNewPosition(direction, currentPosition,
                                                  primaryDisplay, currentBounds)
              accepted == /\ validateBounds(primaryDisplay, currentBounds)
                          /\ validatePosition(newPosition)
              m == IF accepted THEN armed
                   ELSE [timers |-> manualTimers, handle |-> manualMovementTimeout,
                         cancelled |-> FALSE]
          IN /\ isManualMovement' = (accepted \/ isManualMovement)
             /\ manualTimers' = m.timers
             /\ manualMovementTimeout' = m.handle
             /\ sinceManual' = IF accepted THEN 0 ELSE sinceManual
             /\ StoreShortcuts(IF accepted /\ wmSource = Current
                               THEN shortcutsOnShow(ShortcutManager, shortcutManager, takenShortcuts)
                               ELSE ShortcutManager)
             /\ mainWindow' = IF accepted
                              THEN placeWindow(mainWindow, newPosition,
                                               isIncognitoMode, wmSource)
                              ELSE mainWindow
             /\ lastKnownPosition' = IF accepted THEN newPosition
                                     ELSE lastKnownPosition
             /\ cycle' = IF accepted THEN MoveCycle(wmSource) ELSE <<>>
             /\ IF accepted /\ wmSource = Current
                THEN FocusCycle({"setManualMovementMode"}
                                \cup (IF m.cancelled THEN {"clearTimeout"} ELSE {})
                                \cup After("showWindow", calls))
                ELSE /\ calls' = (IF accepted THEN {"setManualMovementMode"} ELSE {})
                                 \cup (IF m.cancelled THEN {"clearTimeout"} ELSE {})
                     /\ UNCHANGED focusVars
             /\ UNCHANGED isIncognitoMode
  /\ UNCHANGED <<wmSource, dfVars, envVars, appVars, pageVars, inits, sinceReposition, geomVars, saveVars,
                 shortcutManager, exited>>

\* WindowManager.moveWindow.
MoveWindow(direction) ==
  /\ inits > 0
  /\ moves < MaxMoves
  /\ moves' = moves + 1
  /\ IF ~mainWindow.exists
     THEN /\ calls' = {}
          /\ cycle' = <<>>
          /\ UNCHANGED <<wmVars, sinceManual, registeredShortcuts,
                         shortcutCallbacks, shortcutsDisabled, takenShortcuts,
                         focusVars>>
     ELSE LET m == setManualMovementMode(manualTimers, manualMovementTimeout)
              currentPosition == [x |-> mainWindow.x, y |-> mainWindow.y]
              currentBounds == [width |-> WINDOW_WIDTH, height |-> WINDOW_HEIGHT]
              newPosition == calculateNewPosition(direction, currentPosition,
                                                  primaryDisplay, currentBounds)
              accepted == /\ validateBounds(primaryDisplay, currentBounds)
                          /\ validatePosition(newPosition)
          IN /\ isManualMovement' = TRUE
             /\ manualTimers' = m.timers
             /\ manualMovementTimeout' = m.handle
             /\ sinceManual' = 0
             /\ StoreShortcuts(IF accepted /\ wmSource = Current
                               THEN shortcutsOnShow(ShortcutManager, shortcutManager, takenShortcuts)
                               ELSE ShortcutManager)
             /\ mainWindow' = IF accepted
                              THEN placeWindow(mainWindow, newPosition,
                                               isIncognitoMode, wmSource)
                              ELSE mainWindow
             /\ lastKnownPosition' = IF accepted THEN newPosition
                                     ELSE lastKnownPosition
             /\ cycle' = IF accepted THEN MoveCycle(wmSource) ELSE <<>>
             /\ IF accepted /\ wmSource = Current
                THEN FocusCycle({"setManualMovementMode"}
                                \cup (IF m.cancelled THEN {"clearTimeout"} ELSE {})
                                \cup After("showWindow", calls))
                ELSE /\ calls' = {"setManualMovementMode"}
                                 \cup (IF m.cancelled THEN {"clearTimeout"} ELSE {})
                     /\ UNCHANGED focusVars
             /\ UNCHANGED isIncognitoMode
  /\ UNCHANGED <<wmSource, dfVars, envVars, appVars, pageVars, inits, sinceReposition, geomVars, saveVars,
                 shortcutManager, exited>>

\* mainWindow.close() from the menu.  The legacy revision lets the window
\* close ('closed' nulls mainWindow); the current one turns the close into
\* hideWindow on macOS.
CloseWindow ==
  /\ isWindowValid
  /\ mainWindow' = IF wmSource = Current THEN hideWindow(mainWindow) ELSE NoWindow
  /\ IF wmSource = Current
     THEN /\ calls' = After("hideWindow", calls)
          /\ StoreShortcuts(shortcutsOnHide(ShortcutManager, shortcutManager, takenShortcuts))
     ELSE /\ calls' = {}
          /\ StoreShortcuts(ShortcutManager)
  /\ cycle' = <<>>
  /\ UNCHANGED <<wmSource, isIncognitoMode, isManualMovement, manualMovementTimeout,
                 manualTimers, lastKnownPosition, dfVars, envVars, appVars, pageVars, inits, moves,
                 sinceManual, sinceReposition, geomVars, saveVars, shortcutManager, exited, focusVars>>

\* The guard at the head of detectDesktopChanges, without the check of the
\* manual-movement flag.
detectionSkips_ignoresManual(w, manual) == ~w.exists \/ ~w.visible

\* The guard at the head of detectDesktopChanges.
detectionSkips(w, manual) == ~w.exists \/ ~w.visible \/ manual

\* The setInterval callback: detectDesktopChanges.  cursor is what
\* screen.getCursorScreenPoint() returns to it.
Tick(cursor) ==
  /\ detectionInterval = 0
  /\ detectionInterval' = DETECTION_INTERVAL
  /\ LET base == CurrentFollower({"detectDesktopChanges"})
         mm == mouseMoved(cursor, lastMousePosition)
         dc == desktopChanged(primaryDisplay, lastKnownDesktop)
         followed == IF mm \/ dc
                     THEN followToCurrentDesktop(base, primaryDisplay,
                                                 isIncognitoMode, wmSource)
                     ELSE base
     IN IF detectionSkips(mainWindow, isManualMovement)
        THEN /\ StoreFollower(base)
             /\ UNCHANGED <<lastMousePosition, lastKnownDesktop>>
        ELSE /\ StoreFollower(ensureWindowOnTop(followed))
             /\ lastMousePosition' = IF mm THEN cursor ELSE lastMousePosition
             /\ lastKnownDesktop' = IF dc THEN getCurrentDesktop(primaryDisplay)
                                    ELSE lastKnownDesktop
  /\ SettingsFollowed
  /\ UNCHANGED <<wmSource, isIncognitoMode, isManualMovement, manualMovementTimeout,
                 manualTimers, screenListeners, envVars, appVars, pageVars, inits, sinceManual,
                 geomVars, saveVars, smVars, exited, focusRest>>

\* display-added / display-removed / display-metrics-changed: the primary
\* display is now d, and every installed listener runs followToCurrentDesktop.
DisplayEvent(d) ==
  /\ inits > 0
  /\ primaryDisplay' = d
  /\ StoreFollower(followTimes(screenListeners, CurrentFollower({}),
                               d, isIncognitoMode, wmSource))
  /\ SettingsFollowed
  /\ UNCHANGED <<wmSource, isIncognitoMode, isManualMovement, manualMovementTimeout,
                 manualTimers, detectionInterval, lastMousePosition, lastKnownDesktop,
                 screenListeners, appVars, pageVars, inits, sinceManual, geomVars, saveVars,
                 smVars, exited, focusRest>>

\* The callback of the manual-movement timeout, clearing the reposition
\* cooldown as well.
ManualExpire_clearsCooldown ==
  /\ \E t \in manualTimers :
       /\ t.remaining = 0
       /\ manualTimers' = manualTimers \ {t}
  /\ isManualMovement' = FALSE
  /\ repositionCooldown' = FALSE
  /\ calls' = {}
  /\ cycle' = <<>>
  /\ UNCHANGED <<wmSource, mainWindow, isIncognitoMode, manualMovementTimeout,
                 lastKnownPosition, detectionInterval, cooldownTimers,
                 lastMousePosition, lastKnownDesktop, screenListeners, envVars, appVars, pageVars,
                 inits, moves, sinceManual, sinceReposition, geomVars, saveVars, smVars,
                 exited, focusVars>>

\* The callback of the manual-movement timeout.
ManualExpire ==
  /\ \E t \in manualTimers :
       /\ t.remaining = 0
       /\ manualTimers' = manualTimers \ {t}
  /\ isManualMovement' = FALSE
  /\ calls' = {}
  /\ cycle' = <<>>
  /\ UNCHANGED <<wmSource, mainWindow, isIncognitoMode, manualMovementTimeout,
                 lastKnownPosition, dfVars, envVars, appVars, pageVars, inits, moves, sinceManual,
                 sinceReposition, geomVars, saveVars, smVars, exited, focusVars>>

\* The callback of the reposition-cooldown timeout.
CooldownExpire ==
  /\ 0 \in cooldownTimers
  /\ cooldownTimers' = cooldownTimers \ {0}
  /\ repositionCooldown' = FALSE
  /\ calls' = {}
  /\ cycle' = <<>>
  /\ UNCHANGED <<wmSource, wmVars, detectionInterval, lastMousePosition,
                 lastKnownDesktop, screenListeners, envVars, appVars, pageVars, inits, moves,
                 sinceManual, sinceReposition, geomVars, saveVars, smVars, exited, focusVars>>

\* Time passes: no callback is due, and every pending timer moves on.
NothingDue ==
  /\ detectionInterval # 0
  /\ \A t \in manualTimers : t.remaining > 0
  /\ 0 \notin cooldownTimers
  /\ pendingRestores = 0
  /\ \A t \in restartTimers : t.remaining > 0

Elapsed(since, cap) == IF since < 0 THEN since ELSE Min(cap, since + Quantum)

Advance ==
  /\ inits > 0
  /\ NothingDue
  /\ detectionInterval' = IF detectionInterval < 0 THEN detectionInterval
                          ELSE detectionInterval - Quantum
  /\ manualTimers' = {[t EXCEPT !.remaining = @ - Quantum] : t \in manualTimers}
  /\ cooldownTimers' = {r - Quantum : r \in cooldownTimers}
  /\ restartTimers' = {[t EXCEPT !.remaining = @ - Quantum] : t \in restartTimers}
  /\ sinceManual' = Elapsed(sinceManual, SinceManualCap)
  /\ sinceReposition' = Elapsed(sinceReposition, SinceRepositionCap)
  /\ calls' = {}
  /\ cycle' = <<>>
  /\ UNCHANGED <<wmSource, mainWindow, isIncognitoMode, isManualMovement,
                 manualMovementTimeout, lastKnownPosition, repositionCooldown,
                 lastMousePosition, lastKnownDesktop, screenListeners, envVars, pageVars,
                 inits, moves, geomVars, saveVars, smVars, exited, focusVars>>

Next ==
  \/ Initialize
  \/ Activate
  \/ ToggleIncognito
  \/ ToggleVisibility
  \/ \E direction \in Directions : MoveWindow(direction)
  \/ CloseWindow
  \/ \E cursor \in CursorPoints : Tick(cursor)
  \/ \E d \in Displays : DisplayEvent(d)
  \/ ManualExpire
  \/ CooldownExpire
  \/ Advance

Spec == Init /\ [][Next]_vars

\* ------------------------------------------- platform calls that throw
\* The platform calls of a tick taken to fail here, by the function that
\* makes them.  Outside any try block: the window queries of getWindowState
\* as detectDesktopChanges, followToCurrentDesktop and ensureWindowOnTop call
\* it, and the cursor query of hasDesktopChanged.  Inside the try block of
\* followToCurrentDesktop: the display query, the setters of
\* enableIncognitoMode, which it calls when incognito is on, and the five
\* window calls that follow (setVisibleOnAllWorkspaces, between
\* setAlwaysOnTop and show, leaves no trace of its own: a throw there is the
\* throw at show).  Inside the try block of ensureWindowOnTop: its two
\* window calls.
\* The setters enableIncognitoMode and disableIncognitoMode call on the main
\* window, in the order of the calls; the one named is taken to throw.  The
\* last is called by the current revision only.
SetterPoints == <<"setContentProtection", "setAlwaysOnTop", "setSkipTaskbar",
                  "setOpacity", "setFocusable">>

\* enableIncognitoMode (on) or disableIncognitoMode (~on) up to its n-th
\* setter, which throws: the n - 1 setters before it have taken effect.
settersBefore(w, on, n) ==
  LET a == IF n > 1 THEN setContentProtection(w, on) ELSE w
      b == IF n > 2
           THEN setAlwaysOnTop(a, ~on, IF on THEN "normal" ELSE "screen-saver")
           ELSE a
      c == IF n > 3 THEN setSkipTaskbar(b, on) ELSE b
  IN IF n > 4
     THEN setOpacity(c, IF on THEN INCOGNITO_OPACITY ELSE FULL_OPACITY)
     ELSE c

\* The calls of the try block after the display query, in order.
FollowPoints ==
  [n \in DOMAIN SetterPoints |-> "enableIncognitoMode." \o SetterPoints[n]]
    \o <<"followToCurrentDesktop.setPosition",
         "followToCurrentDesktop.setAlwaysOnTop", "followToCurrentDesktop.show",
         "followToCurrentDesktop.focus", "followToCurrentDesktop.moveTop">>

FaultPoints ==
  {"detectDesktopChanges.getWindowState", "hasDesktopChanged.getCursorScreenPoint",
   "followToCurrentDesktop.getWindowState", "ensureWindowOnTop.getWindowState",
   "followToCurrentDesktop.getPrimaryDisplay",
   "ensureWindowOnTop.setAlwaysOnTop", "ensureWindowOnTop.moveTop"}
    \cup {FollowPoints[i] : i \in DOMAIN FollowPoints}

\* How many of the calls of FollowPoints come before the call at point.
Completed(point) ==
  CHOOSE i \in 0..(Len(FollowPoints) - 1) : FollowPoints[i + 1] = point

\* followToCurrentDesktop with the call at point throwing: what ran before
\* it stays, lastKnownPosition and the cooldown are not reached, and the
\* catch block only logs.  A throw of getPrimaryDisplay comes before
\* enableIncognitoMode; a throw of one of its setters leaves the window with
\* the setters before it and reaches none of the window calls.
followToCurrentDesktop_throws(f, display, incognito, src, point) ==
  LET target == CenteredTop(display, WINDOW_WIDTH)
      first == point = "followToCurrentDesktop.getPrimaryDisplay"
      setters == Len(SetterPoints)
      inside == ~first /\ Completed(point) < setters
      n == IF first \/ inside THEN 0 ELSE Completed(point) - setters
      styled == IF first \/ ~incognito THEN f.w
                ELSE IF inside THEN settersBefore(f.w, TRUE, Completed(point) + 1)
                ELSE enableIncognitoMode(f.w, src)
      positioned == setPosition(styled, target)
      layered == setAlwaysOnTop(positioned, TRUE, "screen-saver")
  IN [f EXCEPT !.calls = @ \cup {"followToCurrentDesktop"}
                           \cup (IF n >= 1 THEN {"setPosition"} ELSE {})
                           \cup (IF n >= 3 THEN {"show"} ELSE {})
                           \cup (IF n >= 4 THEN {"focus"} ELSE {}),
               !.w = IF n = 0 THEN styled
                     ELSE IF n = 1 THEN positioned
                     ELSE IF n = 2 THEN layered
                     ELSE show(layered)]

\* The operations of the follow cycle that ran before the throw; the
\* attributes count once a setter of enableIncognitoMode has returned.
FollowCycle_throws(incognito, point) ==
  IF point = "followToCurrentDesktop.getPrimaryDisplay" THEN <<>>
  ELSE IF Completed(point) < Len(SetterPoints)
  THEN SubSeq(FollowCycle(incognito), 1, IF Completed(point) > 0 THEN 1 ELSE 0)
  ELSE SubSeq(FollowCycle(incognito), 1,
              (IF incognito THEN 1 ELSE 0) + Completed(point) - Len(SetterPoints))

\* process.on('uncaughtException'): log, then process.exit(1).
uncaughtException == exited' = TRUE

\* The setInterval callback with the platform call at point throwing.  An
\* exception thrown inside a try block is logged and the tick goes on; one
\* thrown outside leaves what the tick has done so far and ends the process.
TickFault(point, cursor) ==
  /\ ~exited
  /\ detectionInterval = 0
  /\ isWindowValid
  /\ LET base == CurrentFollower({"detectDesktopChanges"})
         mm == mouseMoved(cursor, lastMousePosition)
         dc == desktopChanged(primaryDisplay, lastKnownDesktop)
         reached == ~followSkips(mainWindow, repositionCooldown)
         followed == IF mm \/ dc
                     THEN followToCurrentDesktop(base, primaryDisplay,
                                                 isIncognitoMode, wmSource)
                     ELSE base
         thrown == followToCurrentDesktop_throws(base, primaryDisplay,
                                                 isIncognitoMode, wmSource, point)
         hasDesktopChanged ==
           /\ lastMousePosition' = IF mm THEN cursor ELSE lastMousePosition
           /\ lastKnownDesktop' = IF dc THEN getCurrentDesktop(primaryDisplay)
                                  ELSE lastKnownDesktop
         rest ==
           UNCHANGED <<wmSource, isIncognitoMode, isManualMovement,
                       manualMovementTimeout, manualTimers, screenListeners,
                       envVars, appVars, pageVars, inits, sinceManual, geomVars,
                       saveVars, smVars, focusRest>>
     IN \/ /\ point = "detectDesktopChanges.getWindowState"
           /\ StoreFollower(base)
           /\ uncaughtException
           /\ UNCHANGED <<detectionInterval, lastMousePosition, lastKnownDesktop,
                          settingsAttributes>>
           /\ rest
        \/ /\ point = "hasDesktopChanged.getCursorScreenPoint"
           /\ ~detectionSkips(mainWindow, isManualMovement)
           /\ StoreFollower(base)
           /\ uncaughtException
           /\ UNCHANGED <<detectionInterval, lastMousePosition, lastKnownDesktop,
                          settingsAttributes>>
           /\ rest
        \/ /\ point = "followToCurrentDesktop.getWindowState"
           /\ ~detectionSkips(mainWindow, isManualMovement)
           /\ mm \/ dc
           /\ StoreFollower([base EXCEPT !.calls = @ \cup {"followToCurrentDesktop"}])
           /\ hasDesktopChanged
           /\ uncaughtException
           /\ UNCHANGED <<detectionInterval, settingsAttributes>>
           /\ rest
        \/ /\ point = "ensureWindowOnTop.getWindowState"
           /\ ~detectionSkips(mainWindow, isManualMovement)
           /\ StoreFollower(followed)
           /\ hasDesktopChanged
           /\ SettingsFollowed
           /\ uncaughtException
           /\ UNCHANGED detectionInterval
           /\ rest
        \/ /\ \/ point = "followToCurrentDesktop.getPrimaryDisplay"
              \/ \E i \in DOMAIN FollowPoints : FollowPoints[i] = point
           /\ ~detectionSkips(mainWindow, isManualMovement)
           /\ mm \/ dc
           /\ reached
           /\ \A n \in DOMAIN SetterPoints :
                point = FollowPoints[n]
                  => /\ isIncognitoMode
                     /\ SetterPoints[n] = "setFocusable" => wmSource = Current
           /\ StoreFollowerFields(ensureWindowOnTop(thrown))
           /\ cycle' = FollowCycle_throws(isIncognitoMode, point)
           /\ hasDesktopChanged
           /\ settingsAttributes' =
                IF /\ isIncognitoMode
                   /\ \E i \in DOMAIN FollowPoints :
                        i > Len(SetterPoints) /\ FollowPoints[i] = point
                THEN settingsAfterEnable ELSE settingsAttributes
           /\ detectionInterval' = DETECTION_INTERVAL
           /\ UNCHANGED exited
           /\ rest
        \/ /\ point = "ensureWindowOnTop.setAlwaysOnTop"
           /\ ~detectionSkips(mainWindow, isManualMovement)
           /\ StoreFollower(followed)
           /\ hasDesktopChanged
           /\ SettingsFollowed
           /\ detectionInterval' = DETECTION_INTERVAL
           /\ UNCHANGED exited
           /\ rest
        \/ /\ point = "ensureWindowOnTop.moveTop"
           /\ ~detectionSkips(mainWindow, isManualMovement)
           /\ StoreFollower(ensureWindowOnTop(followed))
           /\ hasDesktopChanged
           /\ SettingsFollowed
           /\ detectionInterval' = DETECTION_INTERVAL
           /\ UNCHANGED exited
           /\ rest

\* Nothing runs once the process has exited.
NextFaults ==
  \/ ~exited /\ Initialize
  \/ ~exited /\ Activate
  \/ ~exited /\ ToggleIncognito
  \/ ~exited /\ ToggleVisibility
  \/ ~exited /\ \E direction \in Directions : MoveWindow(direction)
  \/ ~exited /\ CloseWindow
  \/ ~exited /\ \E cursor \in CursorPoints : Tick(cursor)
  \/ ~exited /\ \E d \in Displays : DisplayEvent(d)
  \/ ~exited /\ ManualExpire
  \/ ~exited /\ CooldownExpire
  \/ ~exited /\ Advance
  \/ \E point \in FaultPoints, cursor \in CursorPoints : TickFault(point, cursor)

SpecFaults == Init /\ [][NextFaults]_vars

\* ------------------------------------------- with the settings window
\* ipcMain.handle('open-settings-window'): createSettingsWindow.  An open
\* settings window is only focused; otherwise a new one is created.  The
\* legacy WindowManager has no createSettingsWindow: the handler catches
\* the TypeError and nothing changes.
OpenSettings ==
  /\ ~exited
  /\ inits > 0
  /\ IF settingsWindow # 0 \/ wmSource = Legacy
     THEN UNCHANGED <<settingsWindow, settingsCreated, settingsAttributes,
                      styleDeclared, settingsLoading>>
     ELSE /\ settingsCreated < MaxSettings
          /\ settingsCreated' = settingsCreated + 1
          /\ settingsWindow' = settingsCreated + 1
          /\ settingsAttributes' = NewSettingsWindow
          /\ styleDeclared' = styleDeclared \ {"settings"}
          /\ settingsLoading' = TRUE
  /\ calls' = {}
  /\ cycle' = <<>>
  /\ UNCHANGED <<wmSource, wmVars, dfVars, envVars, appVars, unhandledRejections, inits,
                 moves, sinceManual, sinceReposition, geomVars, saveVars, smVars, exited,
                 previousFocusedWindow, pendingRestores>>

\* The user closes the settings window: it is destroyed, and its 'closed'
\* handler sets settingsWindow to null.
CloseSettings ==
  /\ ~exited
  /\ settingsWindow # 0
  /\ settingsWindow' = 0
  /\ settingsAttributes' = NoSettingsWindow
  /\ styleDeclared' = styleDeclared \ {"settings"}
  /\ settingsLoading' = FALSE
  /\ calls' = {}
  /\ cycle' = <<>>
  /\ UNCHANGED <<wmSource, wmVars, dfVars, envVars, appVars, unhandledRejections, inits,
                 moves, sinceManual, sinceReposition, geomVars, saveVars, smVars, exited,
                 settingsCreated, previousFocusedWindow, pendingRestores>>

\* webContents.executeJavaScript of a script that declares `const style`
\* at the top level of the page of window: the first one declares it, a
\* later one is a SyntaxError (the identifier has already been declared)
\* and its promise rejects.  Neither caller handles the promise.
executeJavaScript(window) ==
  IF window \in styleDeclared
  THEN /\ unhandledRejections' = unhandledRejections + 1
       /\ UNCHANGED styleDeclared
  ELSE /\ styleDeclared' = styleDeclared \cup {window}
       /\ UNCHANGED unhandledRejections

\* The 'did-finish-load' callback createSettingsWindow installs: it runs
\* its script in the settings page.
SettingsLoaded ==
  /\ ~exited
  /\ settingsWindow # 0
  /\ settingsLoading
  /\ unhandledRejections < MaxPending
  /\ settingsLoading' = FALSE
  /\ executeJavaScript("settings")
  /\ calls' = {}
  /\ cycle' = <<>>
  /\ UNCHANGED <<wmSource, wmVars, dfVars, envVars, appVars, inits, moves, sinceManual,
                 sinceReposition, geomVars, saveVars, smVars, exited, focusVars>>

\* ipcMain.handle('enable-kernel-protection'): the window of the renderer
\* that sent the request gets setContentProtection(true), whatever
\* isIncognitoMode is, and the script is run in its page.  The main
\* renderer sends it when it opens the settings, the settings renderer
\* when it loads.
Senders == {"main", "settings"}

EnableKernelProtection(sender) ==
  /\ ~exited
  /\ unhandledRejections < MaxPending
  /\ IF sender = "main"
     THEN /\ isWindowValid
          /\ mainWindow' = setContentProtection(mainWindow, TRUE)
          /\ UNCHANGED settingsAttributes
     ELSE /\ settingsWindow # 0
          /\ settingsAttributes' = setContentProtection(settingsAttributes, TRUE)
          /\ UNCHANGED mainWindow
  /\ executeJavaScript(sender)
  /\ calls' = {"enable-kernel-protection"}
  /\ cycle' = <<>>
  /\ UNCHANGED <<wmSource, isIncognitoMode, isManualMovement, manualMovementTimeout,
                 manualTimers, lastKnownPosition, dfVars, envVars, appVars,
                 settingsLoading, inits, moves, sinceManual, sinceReposition, geomVars,
                 saveVars, smVars, exited, focusRest>>

\* process.on('unhandledRejection'): log, then process.exit(1), in a
\* later turn of the event loop than the one the promise rejected in.
UnhandledRejection ==
  /\ ~exited
  /\ unhandledRejections > 0
  /\ unhandledRejections' = unhandledRejections - 1
  /\ exited' = TRUE
  /\ calls' = {"unhandledRejection"}
  /\ cycle' = <<>>
  /\ UNCHANGED <<wmSource, wmVars, dfVars, envVars, appVars, styleDeclared,
                 settingsLoading, inits, moves, sinceManual, sinceReposition, geomVars,
                 saveVars, smVars, focusVars>>

\* The deferred callback of restoreFocusedWindow:
\* this.previousFocusedWindow.focus(), with no check of its own.  focus()
\* on a destroyed BrowserWindow throws, and nothing catches it in a timer
\* callback but the uncaughtException handler.
RestoreFocus ==
  /\ ~exited
  /\ pendingRestores > 0
  /\ pendingRestores' = pendingRestores - 1
  /\ exited' = isDestroyed(previousFocusedWindow)
  /\ calls' = {"previousFocusedWindow.focus"}
  /\ cycle' = <<>>
  /\ UNCHANGED <<wmSource, wmVars, dfVars, envVars, appVars, pageVars, inits, moves, sinceManual,
                 sinceReposition, geomVars, saveVars, smVars, settingsWindow, settingsCreated,
                 previousFocusedWindow, settingsAttributes>>

\* The handlers that run a show or reposition cycle, with the settings
\* window and the deferred restorations, inside one quantum of time: the
\* restoration is deferred by 10 ms, so no tick and no timeout of the
\* follower comes due between its scheduling and its delivery.
InitFocus ==
  /\ wmSource = Current
  /\ shortcutManager = FALSE
  /\ Constructed
  /\ GeomIdle

NextFocus ==
  \/ ~exited /\ Initialize
  \/ ~exited /\ Activate
  \/ ~exited /\ ToggleIncognito
  \/ ~exited /\ ToggleVisibility
  \/ ~exited /\ \E direction \in Directions : MoveWindow(direction)
  \/ ~exited /\ CloseWindow
  \/ ~exited /\ \E d \in Displays : DisplayEvent(d)
  \/ OpenSettings
  \/ CloseSettings
  \/ RestoreFocus

SpecFocus == InitFocus /\ [][NextFocus]_vars

\* The settings window and the pages of the two windows: mode changes,
\* the settings window opened and closed, its page loading, the requests
\* the renderers send, and the report of a promise nobody handled.
NextSettings ==
  \/ ~exited /\ Initialize
  \/ ~exited /\ ToggleIncognito
  \/ OpenSettings
  \/ CloseSettings
  \/ SettingsLoaded
  \/ \E sender \in Senders : EnableKernelProtection(sender)
  \/ UnhandledRejection

SpecSettings == Init /\ [][NextSettings]_vars

\* ------------------------------------------------------------ persistence
\* The three digits of the milliseconds in toISOString().
Digits == <<"0", "1", "2", "3", "4", "5", "6", "7", "8", "9">>
Milliseconds(ms) ==
  Digits[((ms \div 100) % 10) + 1] \o Digits[((ms \div 10) % 10) + 1]
    \o Digits[(ms % 10) + 1]

\* new Date(ms).toISOString() within the first second of the epoch.
toISOString(ms) == "1970-01-01T00:00:00." \o Milliseconds(ms) \o "Z"

\* IPCManager.generateFilename: the time stamp with ':' and '.' replaced
\* by '-'.
generateFilename(ms) ==
  "conversation-" \o "1970-01-01T00-00-00-" \o Milliseconds(ms) \o "Z" \o ".json"

\* JSON.stringify(value, null, 2) of a string, and of the notesData
\* object of 'save-notes'.
stringify(value) == "\"" \o value \o "\""

stringifyNotes(content, timestamp) ==
  "{\n  \"content\": " \o stringify(content) \o ",\n  \"timestamp\": "
    \o stringify(timestamp) \o ",\n  \"type\": \"notes\"\n}"

\* A file: the inode ino, linked as name in the directory dir, holding
\* data.  An inode that has been unlinked is not kept: what is written to
\* it through a descriptor still open cannot be read back by anyone.
File(ino, dir, name, data) == [ino |-> ino, dir |-> dir, name |-> name, data |-> data]

exists(fs, dir, name) == \E f \in fs : f.dir = dir /\ f.name = name

\* fs.writeFile opening dir/name with flag 'w': the file there is
\* truncated, or a new one (inode ino) is created.
open(fs, dir, name, ino) ==
  IF exists(fs, dir, name)
  THEN {IF f.dir = dir /\ f.name = name THEN [f EXCEPT !.data = ""] ELSE f : f \in fs}
  ELSE fs \cup {File(ino, dir, name, "")}

\* fs.writeFile writing data through its descriptor, from the start of
\* the file: the bytes there are replaced, what lies beyond them stays.
write(fs, ino, data) ==
  LET overwrite(old) ==
        IF Len(old) > Len(data) THEN data \o SubSeq(old, Len(data) + 1, Len(old))
        ELSE data
  IN {IF f.ino = ino THEN [f EXCEPT !.data = overwrite(@)] ELSE f : f \in fs}

\* fs.unlink.
unlink(fs, dir, name) == {f \in fs : ~(f.dir = dir /\ f.name = name)}

\* What the renderer sends to be saved, the directories setNotesDirectory
\* is called with, and the file names 'delete-conversation' is called with.
Payloads == {"a", "bb"}
Directories == {"conversations", "elsewhere"}
Filenames == {generateFilename(ms) : ms \in 0..MaxClock}

\* A handler invocation waiting at an await.  at is the fs operation it
\* awaits, called on dir (and name):
\*   access     ensureNotesDirectory's fs.access(dir)
\*   mkdir      ensureNotesDirectory's fs.mkdir(dir)
\*   writeFile  fs.writeFile(dir/name), the file not yet opened
\*   open       fs.writeFile(dir/name), the file opened as inode ino
\*   unlink     fs.unlink(dir/name)
\*   readdir    fs.readdir(dir)
\* settled: the operation has had its effect on the disk and its promise is
\* resolved, or rejected (error); the handler has not resumed yet.
Request(handler, input, at, dir, name) ==
  [id |-> invocations + 1, handler |-> handler, input |-> input,
   at |-> at, dir |-> dir, name |-> name, timestamp |-> "",
   settled |-> FALSE, error |-> FALSE, ino |-> 0]

\* The handler calls the next fs operation and awaits it.
Call(r, operation, dir) ==
  [r EXCEPT !.at = operation, !.dir = dir, !.settled = FALSE, !.error = FALSE]

\* The operation a request awaits is over.
Settle(r, error) == [r EXCEPT !.settled = TRUE, !.error = error, !.ino = 0]

\* An inode number no file and no open descriptor has.
FreshIno ==
  CHOOSE i \in 1..(Cardinality(files) + Cardinality(pendingSaves) + 1) :
    /\ \A f \in files : f.ino # i
    /\ \A r \in pendingSaves : r.ino # i
    /\ \A j \in 1..(i - 1) :
         (\E f \in files : f.ino = j) \/ (\E r \in pendingSaves : r.ino = j)

\* What the handler hands to fs.writeFile.
fileData(r) ==
  IF r.handler = "save-conversation" THEN stringify(r.input)
  ELSE stringifyNotes(r.input, r.timestamp)

saveRest == <<wmSource, wmVars, dfVars, envVars, appVars, pageVars, inits, moves, obsVars,
              geomVars, smVars, exited, focusVars, cycle>>

\* ipcMain.handle('save-conversation') up to its first await: fs.access
\* of the notes directory, in ensureNotesDirectory.
SaveConversation(conversationData) ==
  /\ invocations < MaxSaves
  /\ invocations' = invocations + 1
  /\ pendingSaves' = pendingSaves \cup
       {Request("save-conversation", conversationData, "access", notesDirectory, "")}
  /\ UNCHANGED <<clock, files, saves, notesDirectory, directories, savedPaths, saveRest>>

\* ipcMain.handle('save-notes') up to its first await.
SaveNotes(content) ==
  /\ invocations < MaxSaves
  /\ invocations' = invocations + 1
  /\ pendingSaves' = pendingSaves \cup
       {Request("save-notes", content, "access", notesDirectory, "")}
  /\ UNCHANGED <<clock, files, saves, notesDirectory, directories, savedPaths, saveRest>>

\* ipcMain.handle('list-conversations') up to its first await.
ListConversations ==
  /\ invocations < MaxSaves
  /\ invocations' = invocations + 1
  /\ pendingSaves' = pendingSaves \cup
       {Request("list-conversations", "", "access", notesDirectory, "")}
  /\ UNCHANGED <<clock, files, saves, notesDirectory, directories, savedPaths, saveRest>>

\* ipcMain.handle('delete-conversation') up to its await: fs.unlink of the
\* file of that name in the notes directory.
DeleteConversation(filename) ==
  /\ invocations < MaxSaves
  /\ invocations' = invocations + 1
  /\ pendingSaves' = pendingSaves \cup
       {Request("delete-conversation", "", "unlink", notesDirectory, filename)}
  /\ UNCHANGED <<clock, files, saves, notesDirectory, directories, savedPaths, saveRest>>

\* fs.access looks for the directory it was called with: its promise is
\* resolved if the directory is there now, rejected if not.
AccessDirectory ==
  \E r \in pendingSaves :
    /\ r.at = "access" /\ ~r.settled
    /\ pendingSaves' = (pendingSaves \ {r}) \cup {Settle(r, r.dir \notin directories)}
    /\ UNCHANGED <<clock, files, saves, notesDirectory, directories, savedPaths, invocations, saveRest>>

\* fs.mkdir(dir, { recursive: true }) creates the directory; it resolves
\* as well when the directory is there already.
MakeDirectory ==
  \E r \in pendingSaves :
    /\ r.at = "mkdir" /\ ~r.settled
    /\ directories' = directories \cup {r.dir}
    /\ pendingSaves' = (pendingSaves \ {r}) \cup {Settle(r, FALSE)}
    /\ UNCHANGED <<clock, files, saves, notesDirectory, savedPaths, invocations, saveRest>>

\* The handler between ensureNotesDirectory and its next await.  The save
\* handlers read the clock for the file name and, in 'save-notes', once
\* more for the time stamp (elapsed milliseconds later), join the name to
\* the notes directory as it is now, and call fs.writeFile;
\* 'list-conversations' calls fs.readdir of the notes directory as it is
\* now.
Named(r, elapsed) ==
  [Call(r, "writeFile", notesDirectory)
     EXCEPT !.name = generateFilename(clock),
            !.timestamp = IF r.handler = "save-notes"
                          THEN toISOString(clock + elapsed) ELSE ""]

Elapses(r) == IF r.handler = "save-notes" /\ clock < MaxClock THEN {0, 1} ELSE {0}

Continue(r) ==
  IF r.handler = "list-conversations"
  THEN /\ pendingSaves' = (pendingSaves \ {r}) \cup {Call(r, "readdir", notesDirectory)}
       /\ UNCHANGED clock
  ELSE \E elapsed \in Elapses(r) :
         /\ pendingSaves' = (pendingSaves \ {r}) \cup {Named(r, elapsed)}
         /\ clock' = clock + elapsed

\* ensureNotesDirectory resumes after fs.access.  Resolved: it returns and
\* the handler goes on.  Rejected: its catch block calls fs.mkdir of the
\* notes directory as it is now.
EnsureNotesDirectory ==
  \E r \in pendingSaves :
    /\ r.at = "access" /\ r.settled
    /\ IF r.error
       THEN /\ pendingSaves' = (pendingSaves \ {r}) \cup {Call(r, "mkdir", notesDirectory)}
            /\ UNCHANGED clock
       ELSE Continue(r)
    /\ UNCHANGED <<files, saves, notesDirectory, directories, savedPaths, invocations, saveRest>>

\* ensureNotesDirectory resumes after fs.mkdir resolved: it returns and
\* the handler goes on.
DirectoryCreated ==
  \E r \in pendingSaves :
    /\ r.at = "mkdir" /\ r.settled /\ ~r.error
    /\ Continue(r)
    /\ UNCHANGED <<files, saves, notesDirectory, directories, savedPaths, invocations, saveRest>>

\* fs.writeFile opens the file: a file of that path is created, or
\* truncated if there is one.
OpenFile ==
  \E r \in pendingSaves :
    /\ r.at = "writeFile" /\ ~r.settled
    /\ r.dir \in directories
    /\ files' = open(files, r.dir, r.name, FreshIno)
    /\ pendingSaves' = (pendingSaves \ {r}) \cup
         {[r EXCEPT !.at = "open",
                    !.ino = (CHOOSE f \in files' : f.dir = r.dir /\ f.name = r.name).ino]}
    /\ UNCHANGED <<clock, saves, notesDirectory, directories, savedPaths, invocations, saveRest>>

\* fs.writeFile writes the data to the file it opened and closes it.  If
\* the file has been unlinked since, no file of the directory changes.
FillFile ==
  \E r \in pendingSaves :
    /\ r.at = "open" /\ ~r.settled
    /\ files' = write(files, r.ino, fileData(r))
    /\ pendingSaves' = (pendingSaves \ {r}) \cup {Settle(r, FALSE)}
    /\ UNCHANGED <<clock, saves, notesDirectory, directories, savedPaths, invocations, saveRest>>

\* The handler after await fs.writeFile: it returns
\* { success: true, filename }.
WriteFile ==
  \E r \in pendingSaves :
    /\ r.at = "open" /\ r.settled /\ ~r.error
    /\ pendingSaves' = pendingSaves \ {r}
    /\ savedPaths' = savedPaths \cup {[dir |-> r.dir, name |-> r.name]}
    /\ saves' = saves + 1
    /\ UNCHANGED <<clock, files, notesDirectory, directories, invocations, saveRest>>

\* fs.unlink removes the file, or is rejected when there is none.
Unlink ==
  \E r \in pendingSaves :
    /\ r.at = "unlink" /\ ~r.settled
    /\ files' = unlink(files, r.dir, r.name)
    /\ pendingSaves' = (pendingSaves \ {r}) \cup
         {Settle(r, ~exists(files, r.dir, r.name))}
    /\ UNCHANGED <<clock, saves, notesDirectory, directories, savedPaths, invocations, saveRest>>

\* fs.readdir reads the directory, or is rejected when there is none.
ReadDirectory ==
  \E r \in pendingSaves :
    /\ r.at = "readdir" /\ ~r.settled
    /\ pendingSaves' = (pendingSaves \ {r}) \cup {Settle(r, r.dir \notin directories)}
    /\ UNCHANGED <<clock, files, saves, notesDirectory, directories, savedPaths, invocations, saveRest>>

\* An operation is rejected for a reason outside the application:
\* fs.mkdir (no permission), fs.writeFile before it has opened the file
\* (no such directory, no permission) or after (the disk is full; the
\* file stays as it is).
Rejects ==
  \E r \in pendingSaves :
    /\ r.at \in {"mkdir", "writeFile", "open"} /\ ~r.settled
    /\ pendingSaves' = (pendingSaves \ {r}) \cup {Settle(r, TRUE)}
    /\ UNCHANGED <<clock, files, saves, notesDirectory, directories, savedPaths, invocations, saveRest>>

\* 'delete-conversation' after await fs.unlink, and 'list-conversations'
\* after await fs.readdir: the handler returns { success: true }.
Returns ==
  \E r \in pendingSaves :
    /\ r.at \in {"unlink", "readdir"} /\ r.settled /\ ~r.error
    /\ pendingSaves' = pendingSaves \ {r}
    /\ UNCHANGED <<clock, files, saves, notesDirectory, directories, savedPaths, invocations, saveRest>>

\* The awaited promise was rejected and the catch block of the handler
\* returns { success: false }.  (A rejected fs.access is caught inside
\* ensureNotesDirectory.)
SaveFails ==
  \E r \in pendingSaves :
    /\ r.at # "access" /\ r.settled /\ r.error
    /\ pendingSaves' = pendingSaves \ {r}
    /\ UNCHANGED <<clock, files, saves, notesDirectory, directories, savedPaths, invocations, saveRest>>

\* IPCManager.setNotesDirectory.
SetNotesDirectory(directory) ==
  /\ directory # notesDirectory
  /\ notesDirectory' = directory
  /\ UNCHANGED <<clock, files, saves, pendingSaves, directories, savedPaths, invocations, saveRest>>

\* A millisecond passes.
Millisecond ==
  /\ clock < MaxClock
  /\ clock' = clock + 1
  /\ UNCHANGED <<files, saves, pendingSaves, notesDirectory, directories, savedPaths,
                 invocations, saveRest>>

NextSave ==
  \/ \E conversationData \in Payloads : SaveConversation(conversationData)
  \/ \E content \in Payloads : SaveNotes(content)
  \/ ListConversations
  \/ \E filename \in Filenames : DeleteConversation(filename)
  \/ AccessDirectory
  \/ EnsureNotesDirectory
  \/ MakeDirectory
  \/ DirectoryCreated
  \/ OpenFile
  \/ FillFile
  \/ WriteFile
  \/ Unlink
  \/ ReadDirectory
  \/ Rejects
  \/ Returns
  \/ SaveFails
  \/ \E directory \in Directories : SetNotesDirectory(directory)
  \/ Millisecond

SpecSave == Init /\ [][NextSave]_vars

\* --------------------------------------------- attribute setters that throw
\* toggleIncognitoMode with the n-th of SetterPoints throwing: the flag is flipped
\* before the setters run, and the catch block only logs.
toggleIncognitoMode_throws(w, incognito, n) ==
  [w |-> settersBefore(w, ~incognito, n), incognito |-> ~incognito]

ToggleIncognitoFault(n) ==
  /\ isWindowValid
  /\ SetterPoints[n] = "setFocusable" => wmSource = Current
  /\ LET r == toggleIncognitoMode_throws(mainWindow, isIncognitoMode, n)
     IN /\ mainWindow' = r.w
        /\ isIncognitoMode' = r.incognito
  /\ calls' = {"toggleIncognitoMode", SetterPoints[n] \o " throws"}
  /\ cycle' = <<>>
  /\ UNCHANGED <<wmSource, isManualMovement, manualMovementTimeout, manualTimers,
                 lastKnownPosition, dfVars, envVars, appVars, pageVars, inits, moves, sinceManual,
                 sinceReposition, geomVars, saveVars, smVars, exited, focusVars>>

NextSetterFaults ==
  \/ Initialize
  \/ Activate
  \/ ToggleVisibility
  \/ ToggleIncognito
  \/ \E n \in DOMAIN SetterPoints : ToggleIncognitoFault(n)
  \/ CloseWindow

SpecSetterFaults == Init /\ [][NextSetterFaults]_vars

\* ------------------------------------------------------------- cleanup
\* AIAssistantApp.cleanup: stopDetection, unregisterAllShortcuts, then
\* mainWindow.close() on a valid window.  The close is CloseWindow's: the
\* legacy revision lets the window go, the current one turns it into
\* hideWindow, which cancels the quit that asked for it.
cleanup ==
  /\ detectionInterval' = -1
  /\ LET sm == unregisterAllShortcuts(ShortcutManager)
     IN IF isWindowValid /\ wmSource = Current
        THEN /\ mainWindow' = hideWindow(mainWindow)
             /\ calls' = {"cleanup"} \cup After("hideWindow", calls)
             /\ StoreShortcuts(shortcutsOnHide(sm, shortcutManager, takenShortcuts))
        ELSE /\ mainWindow' = NoWindow
             /\ calls' = {"cleanup"}
             /\ StoreShortcuts(sm)
  /\ cycle' = <<>>
  /\ UNCHANGED <<wmSource, isIncognitoMode, isManualMovement, manualMovementTimeout,
                 manualTimers, lastKnownPosition, repositionCooldown, cooldownTimers,
                 lastMousePosition, lastKnownDesktop, screenListeners, envVars, pageVars,
                 inits, moves, sinceManual, sinceReposition, geomVars, saveVars,
                 shortcutManager, exited, focusVars>>

\* DesktopFollower.forceToFront, a method of the follower that nothing in
\* the application calls: a shown window that does not have the focus is
\* put always-on-top, shown, focused and moved to the top, in either mode.
\* isFocused is what getWindowState reads from the platform.
ForceCycle == <<"setAlwaysOnTop", "show", "focus", "moveTop">>

forceToFront(w, isFocused) ==
  IF ~w.exists \/ ~w.visible \/ isFocused THEN w
  ELSE show(setAlwaysOnTop(w, TRUE, "screen-saver"))

ForceToFront(isFocused) ==
  /\ inits > 0
  /\ mainWindow' = forceToFront(mainWindow, isFocused)
  /\ LET ran == isWindowValid /\ mainWindow.visible /\ ~isFocused
     IN /\ calls' = IF ran THEN {"forceToFront", "show", "focus"} ELSE {}
        /\ cycle' = IF ran THEN ForceCycle ELSE <<>>
  /\ UNCHANGED <<wmSource, isIncognitoMode, isManualMovement, manualMovementTimeout,
                 manualTimers, lastKnownPosition, dfVars, envVars, appVars, pageVars, inits, moves,
                 sinceManual, sinceReposition, geomVars, saveVars, smVars, exited,
                 focusVars>>

\* Another application registers or releases global shortcuts: from now
\* on globalShortcut.register returns false for the accelerators in taken.
\* It cannot take one this application holds.
Refusals == {{}, {"TOGGLE_VISIBILITY"}, {"MOVE_LEFT"}, Shortcuts}

OtherApplication(taken) ==
  /\ taken # takenShortcuts
  /\ taken \cap registeredShortcuts = {}
  /\ takenShortcuts' = taken
  /\ calls' = {}
  /\ cycle' = <<>>
  /\ UNCHANGED <<wmSource, wmVars, dfVars, envVars, appVars, pageVars, inits, moves, sinceManual,
                 sinceReposition, geomVars, saveVars, shortcutManager,
                 registeredShortcuts, shortcutCallbacks, shortcutsDisabled, exited,
                 focusVars>>

\* ShortcutManager.unregisterShortcut(accelerator), another method nothing
\* calls: the accelerator leaves registeredShortcuts; its stored callback,
\* if any, stays.
unregisterShortcut(sm, accelerator) ==
  [sm EXCEPT !.registered = @ \ {accelerator}]

\* The accelerators it is called with here.
Unregistered == {"TOGGLE_VISIBILITY", "MOVE_LEFT"}

UnregisterShortcut(accelerator) ==
  /\ inits > 0
  /\ StoreShortcuts(unregisterShortcut(ShortcutManager, accelerator))
  /\ calls' = {}
  /\ cycle' = <<>>
  /\ UNCHANGED <<wmSource, wmVars, dfVars, envVars, appVars, pageVars, inits, moves, sinceManual,
                 sinceReposition, geomVars, saveVars, shortcutManager, exited, focusVars>>

\* cleanup as handleBeforeQuit and handleWillQuit call it.
Cleanup ==
  /\ inits > 0
  /\ cleanup
  /\ UNCHANGED appVars

\* AIAssistantApp.restart: cleanup now, initialize RESTART_DELAY later.
Restart ==
  /\ inits > 0
  /\ inits + Cardinality(restartTimers) < MaxInit
  /\ cleanup
  /\ restartTimers' = restartTimers \cup
                        {[id |-> FreshId(restartTimers), remaining |-> RESTART_DELAY]}

\* The callback of restart's timeout: initialize, whatever the window is.
RestartInitialize ==
  \E t \in restartTimers :
    /\ t.remaining = 0
    /\ restartTimers' = restartTimers \ {t}
    /\ initialize

\* The application with its cleanup and restart and with the two methods
\* nothing calls, the WindowManager built with or without a shortcut
\* manager.
InitQuit ==
  /\ wmSource \in Sources
  /\ shortcutManager \in BOOLEAN
  /\ Constructed
  /\ GeomIdle

NextQuit ==
  \/ Initialize
  \/ Activate
  \/ ToggleVisibility
  \/ Cleanup
  \/ Restart
  \/ RestartInitialize
  \/ \E isFocused \in BOOLEAN : ForceToFront(isFocused)
  \/ \E accelerator \in Unregistered : UnregisterShortcut(accelerator)
  \/ \E cursor \in CursorPoints : Tick(cursor)
  \/ \E d \in Displays : DisplayEvent(d)
  \/ CooldownExpire
  \/ Advance

SpecQuit == InitQuit /\ [][NextQuit]_vars

\* The shortcut manager on a platform where other applications hold
\* accelerators: the handlers that register, with the accelerators taken
\* and released in between.
NextPlatform ==
  \/ Initialize
  \/ Activate
  \/ ToggleVisibility
  \/ CloseWindow
  \/ Cleanup
  \/ \E accelerator \in Unregistered : UnregisterShortcut(accelerator)
  \/ \E taken \in Refusals : OtherApplication(taken)

SpecPlatform == InitQuit /\ [][NextPlatform]_vars

\* The event loop keeps running what is enabled: a handler or a timer
\* callback that can run is not put off for ever.
SpecQuitFair == SpecQuit /\ WF_vars(NextQuit)

\* ------------------------------------------- moves on unusual displays
\* The primary display may also be one whose bounds moveWindow rejects: one
\* of zero size (validateBounds fails) and one lying left of the origin
\* (the clamped position is negative, validatePosition fails).
DZero == Display(0, 0, 0, 0)
DLeft == Display(0 - 1920, 0, 1920, 1080)
MoveDisplays == {D0, DZero, DLeft}

NextMoves ==
  \/ Initialize
  \/ ToggleVisibility
  \/ \E direction \in Directions : MoveWindow(direction)
  \/ \E cursor \in CursorPoints : Tick(cursor)
  \/ \E d \in MoveDisplays : DisplayEvent(d)
  \/ ManualExpire
  \/ CooldownExpire
  \/ Advance

SpecMoves == Init /\ [][NextMoves]_vars

\* ------------------------------------------- with a shortcut manager
\* The same machine for a WindowManager built with or without a shortcut
\* manager (constructor(shortcutManager = null)), in the revision whose
\* close handler hides the window.
InitShortcuts ==
  /\ wmSource = Current
  /\ shortcutManager \in BOOLEAN
  /\ Constructed
  /\ GeomIdle

\* The handlers and timers of one display, with globalShortcut.register free
\* to refuse an accelerator that another application holds.
NextShortcuts ==
  \/ Initialize
  \/ Activate
  \/ ToggleIncognito
  \/ ToggleVisibility
  \/ \E direction \in Directions : MoveWindow(direction)
  \/ CloseWindow
  \/ \E cursor \in CursorPoints : Tick(cursor)
  \/ ManualExpire
  \/ CooldownExpire
  \/ Advance
  \/ \E taken \in Refusals : OtherApplication(taken)

SpecShortcuts == InitShortcuts /\ [][NextShortcuts]_vars

\* ------------------------------------------------- geometry on its own
\* The position arithmetic of createWindow, followToCurrentDesktop and
\* moveWindow, run over displays, window sizes and starting positions the
\* full machine does not visit.
GeomDisplays ==
  {D0, D1, Display(0, 0, 500, 200), Display(100, 50, 450, 150),
   Display(-500, -200, 600, 300), Display(0, 0, 400, 100), Display(0, 0, 300, 80),
   Display(0, 0, 1920, 0), Display(0, 0, -100, 1080), Display(0, 0, 1920, -50)}

GeomWindows ==
  {[width |-> WINDOW_WIDTH, height |-> WINDOW_HEIGHT], [width |-> 450, height |-> 150]}

GeomStarts ==
  {[x |-> 0, y |-> 0], [x |-> 1870, y |-> 50], [x |-> 2400, y |-> 1200],
   [x |-> -700, y |-> -300], [x |-> 120, y |-> 60]}

GeomInit ==
  /\ wmSource = Current
  /\ shortcutManager = FALSE
  /\ Constructed
  /\ gDisplay \in GeomDisplays
  /\ gBounds \in GeomWindows
  /\ gPosition \in GeomStarts
  /\ gStart = gPosition
  /\ gDirection = "none"
  /\ gResult = gPosition

\* The position part of moveWindow: validateBounds, calculateNewPosition,
\* validatePosition, setPosition.
GeomMove(direction) ==
  LET valid == validateBounds(gDisplay, gBounds)
      newPosition == calculateNewPosition(direction, gPosition, gDisplay, gBounds)
      accepted == valid /\ validatePosition(newPosition)
  IN /\ gDirection' = direction
     /\ gStart' = gPosition
     /\ gResult' = IF valid THEN newPosition ELSE gResult
     /\ gPosition' = IF accepted THEN newPosition ELSE gPosition
     /\ UNCHANGED <<gDisplay, gBounds>>
     /\ UNCHANGED <<wmSource, wmVars, dfVars, envVars, appVars, pageVars, inits, moves, obsVars, smVars, exited, focusVars, saveVars, cycle>>

\* The position part of createWindow and of followToCurrentDesktop.
GeomCentre ==
  LET target == CenteredTop(gDisplay, WINDOW_WIDTH)
  IN /\ gDirection' = "centre"
     /\ gStart' = gPosition
     /\ gResult' = target
     /\ gPosition' = target
     /\ UNCHANGED <<gDisplay, gBounds>>
     /\ UNCHANGED <<wmSource, wmVars, dfVars, envVars, appVars, pageVars, inits, moves, obsVars, smVars, exited, focusVars, saveVars, cycle>>

GeomNext ==
  \/ \E direction \in Directions : GeomMove(direction)
  \/ GeomCentre

SpecGeom == GeomInit /\ [][GeomNext]_vars

\* ------------------------------------------------------------ vocabulary
Hidden == mainWindow.exists /\ ~mainWindow.visible
Shown == mainWindow.exists /\ mainWindow.visible

\* The step just taken was a tick / ran followToCurrentDesktop / moved the
\* window automatically.
TickRan == "detectDesktopChanges" \in calls
FollowRan == "followToCurrentDesktop" \in calls
Repositioned == "setPosition" \in calls

\* A step of the detection interval, whatever the cursor position read.
TickStep == \E cursor \in CursorPoints : Tick(cursor)

\* rect lies within display, on both axes.
Inside(p, display, bounds) ==
  /\ display.x <= p.x
  /\ p.x <= display.x + display.width - bounds.width
  /\ display.y <= p.y
  /\ p.y <= display.y + display.height - bounds.height

ConfigBounds == [width |-> WINDOW_WIDTH, height |-> WINDOW_HEIGHT]

\* ------------------------------------------------------------------ C1
\* C1: in every reachable state, a hidden main window has content protection
\* on, opacity 0, skip-taskbar on and always-on-top off.
C1_HiddenIsInert ==
  Hidden => /\ mainWindow.contentProtection
            /\ mainWindow.opacity = 0
            /\ mainWindow.skipTaskbar
            /\ ~mainWindow.alwaysOnTop

\* ------------------------------------------------------------------ C2
\* C2: whenever isIncognitoMode is true and a main window exists, that
\* window's content protection is on, re-creation of the window included.
C2_IncognitoProtects ==
  (isIncognitoMode /\ mainWindow.exists) => mainWindow.contentProtection

\* ------------------------------------------------------------------ C3
\* C3: toggleIncognitoMode on a hidden window changes nothing: the window
\* stays hidden, with the same attributes, and the incognito flag keeps its
\* value.
C3_HiddenToggleIsNoOp ==
  [][(ToggleIncognito /\ Hidden)
       => (mainWindow' = mainWindow /\ isIncognitoMode' = isIncognitoMode)]_vars

\* ------------------------------------------------------------------ C4
\* C4: a step that starts with the manual-movement flag set, a tick or a
\* display event alike, never has followToCurrentDesktop set the position.
C4_ManualSuppressesFollower ==
  [][isManualMovement => ~Repositioned']_vars

\* ------------------------------------------------------------------ C5
\* C5: from a manual move until the suppression duration has passed the flag
\* is set, and a tick that starts with the flag set does not run
\* followToCurrentDesktop; once the flag is cleared, a tick that finds the
\* window shown and the desktop different from the last one it stored does
\* run it.
C5_SuppressedStill ==
  (sinceManual >= 0 /\ sinceManual < MANUAL_MOVEMENT_TIMEOUT) => isManualMovement

C5_SuppressedTick == (TickStep /\ isManualMovement) => ~FollowRan'

C5_ResumedTick ==
  (TickStep /\ ~isManualMovement /\ Shown
        /\ desktopChanged(primaryDisplay, lastKnownDesktop)) => FollowRan'

C5_TickHonoursManualWindow ==
  /\ []C5_SuppressedStill
  /\ [][C5_SuppressedTick /\ C5_ResumedTick]_vars

\* A tick has just run 1 to 4 s after a manual move, with the window shown
\* and the display not the one stored, and did not run the follower.
C5_Witness ==
  /\ TickRan
  /\ ~FollowRan
  /\ isManualMovement
  /\ Shown
  /\ sinceManual > 0
  /\ sinceManual < MANUAL_MOVEMENT_TIMEOUT
  /\ desktopChanged(primaryDisplay, lastKnownDesktop)

\* ------------------------------------------------------------------ C6
\* C6: at most one manual-override expiry is pending; while the flag is set
\* the pending one is the one of the last call and fires one full duration
\* after that call, and the flag is cleared by no earlier step.
C6_OnePending == Cardinality(manualTimers) <= 1

C6_TimedFromLastCall ==
  isManualMovement =>
    \E t \in manualTimers :
      /\ t.id = manualMovementTimeout
      /\ t.remaining = MANUAL_MOVEMENT_TIMEOUT - sinceManual

C6_ClearedOnExpiry ==
  (isManualMovement /\ ~isManualMovement')
    => (sinceManual = MANUAL_MOVEMENT_TIMEOUT /\ manualTimers' = {})

C6_LastCallWins ==
  /\ [](C6_OnePending /\ C6_TimedFromLastCall)
  /\ [][C6_ClearedOnExpiry]_vars

\* setManualMovementMode has just run a second time inside the window and
\* cancelled the countdown of the first.
C6_Witness ==
  /\ "clearTimeout" \in calls
  /\ isManualMovement
  /\ sinceManual = 0
  /\ \E t \in manualTimers : t.remaining = MANUAL_MOVEMENT_TIMEOUT

\* ------------------------------------------------------------------ C7
\* C7: followToCurrentDesktop moves nothing in a step that starts with the
\* cooldown armed, every automatic reposition leaves the cooldown armed for a
\* full duration, and an automatic reposition comes no sooner than one
\* cooldown duration after the one before.
C7_ArmedAfter ==
  Repositioned => (repositionCooldown /\ REPOSITION_COOLDOWN \in cooldownTimers)

C7_NoOpWhileArmed == repositionCooldown => ~Repositioned'

C7_Spaced ==
  Repositioned' => (sinceReposition < 0 \/ sinceReposition >= REPOSITION_COOLDOWN)

C7_CooldownSpacesRepositions ==
  /\ []C7_ArmedAfter
  /\ [][C7_NoOpWhileArmed /\ C7_Spaced]_vars

\* The follower ran while the cooldown of an earlier reposition was armed,
\* less than a cooldown duration ago, and moved nothing.
C7_Witness ==
  /\ FollowRan
  /\ ~Repositioned
  /\ Shown
  /\ repositionCooldown
  /\ sinceReposition >= 0
  /\ sinceReposition < REPOSITION_COOLDOWN

\* ------------------------------------------------------------------ C8
\* C8: with the window shown in normal mode, no suppression and no cooldown,
\* the tick that finds the display changed from {0,0,1920x1080} to
\* {1920,0,1920x1080} moves the window to x = 1920 + round((1920-400)/2),
\* y = 50 and arms the cooldown.
C8_FollowIncludesOrigin ==
  [][(/\ TickStep
      /\ Shown
      /\ ~isIncognitoMode
      /\ ~isManualMovement
      /\ ~repositionCooldown
      /\ lastKnownDesktop = getCurrentDesktop(D0)
      /\ primaryDisplay = D1)
     => (/\ mainWindow'.x = D1.x + RoundHalf(D1.width - WINDOW_WIDTH)
         /\ mainWindow'.y = TOP_MARGIN
         /\ repositionCooldown')]_vars

\* ------------------------------------------------------------------ C9
\* C9: on a display of positive size at least as wide as the window, the
\* position computed for creation and for automatic follow is
\* x = round((display.width - winWidth)/2), y = 50, and the window lies
\* between the display's left and right edges.
C9_CentredInsideDisplay ==
  (/\ gDirection = "centre"
   /\ gDisplay.width > 0
   /\ gDisplay.height > 0
   /\ WINDOW_WIDTH <= gDisplay.width)
  => (/\ gResult.x = RoundHalf(gDisplay.width - WINDOW_WIDTH)
      /\ gResult.y = TOP_MARGIN
      /\ gDisplay.x <= gResult.x
      /\ gResult.x + WINDOW_WIDTH <= gDisplay.x + gDisplay.width)

\* ------------------------------------------------------------------ C10
\* C10: for each of the four directions, any starting position and any
\* display at least as large as the window, calculateNewPosition returns a
\* position inside the display, and moveWindow leaves the window either where
\* it was or at that position.
C10_MoveStaysInside ==
  (/\ gDirection \in Directions
   /\ gDisplay.width >= gBounds.width
   /\ gDisplay.height >= gBounds.height)
  => (/\ Inside(gResult, gDisplay, gBounds)
      /\ gPosition \in {gStart, gResult})

\* moveWindow('right') from x = 1870 with a 400-wide window on the
\* 1920-wide display: the result is x = 1520.
C10_Witness ==
  /\ gDisplay = D0
  /\ gBounds = ConfigBounds
  /\ gDirection = "right"
  /\ gStart.x = 1870
  /\ gResult.x = 1520
  /\ gPosition = gResult

\* ------------------------------------------------------------------ C11
\* C11: moveWindow leaves the window where it is whenever the display's
\* width or height, or the window's width or height, is zero or negative.
C11_RejectsNonPositive ==
  (/\ gDirection \in Directions
   /\ \/ gDisplay.width <= 0
      \/ gDisplay.height <= 0
      \/ gBounds.width <= 0
      \/ gBounds.height <= 0)
  => gPosition = gStart

\* ------------------------------------------------------------------ C12
\* C12: an automatic reposition shows the window with no focus-taking
\* show() and never calls focus() on it.
C12_FollowNeverTakesFocus ==
  Repositioned => ("show" \notin calls /\ "focus" \notin calls)

\* The two attribute sets of a shown window.
IncognitoAttributes(w) ==
  /\ w.contentProtection
  /\ w.opacity = INCOGNITO_OPACITY
  /\ w.skipTaskbar
  /\ ~w.alwaysOnTop

NormalAttributes(w) ==
  /\ ~w.contentProtection
  /\ w.opacity = FULL_OPACITY
  /\ ~w.skipTaskbar
  /\ w.alwaysOnTop
  /\ w.level = "screen-saver"

\* ------------------------------------------------------------------ C13
\* C13: in every reachable state with the window shown and isIncognitoMode
\* true, content protection is on, opacity is 0.8, skip-taskbar is on and
\* always-on-top is off.
C13_ShownIncognitoSet ==
  (Shown /\ isIncognitoMode) => IncognitoAttributes(mainWindow)

\* ------------------------------------------------------------------ C14
\* C14: in every reachable state with the window shown and isIncognitoMode
\* false, content protection is off, opacity is 1.0, always-on-top is on at
\* the screen-saver level and skip-taskbar is off.
C14_ShownNormalSet ==
  (Shown /\ ~isIncognitoMode) => NormalAttributes(mainWindow)

\* ------------------------------------------------------------------ C15
\* C15: hiding and then showing the window returns to Shown with the
\* incognito flag it had before the hide and with the complete attribute
\* set of that flag.  hideWindow leaves the flag alone, and a show operation
\* that follows hideWindow ends shown, with the flag unchanged and the
\* attribute set of the flag.
ShownAfterHide == {"showWindow", "afterHideWindow"} \subseteq calls

C15_HideKeepsFlag ==
  [][("hideWindow" \in calls') => (isIncognitoMode' = isIncognitoMode)]_vars

C15_ShowRestores ==
  [][ShownAfterHide' =>
       /\ Shown'
       /\ isIncognitoMode' = isIncognitoMode
       /\ IF isIncognitoMode' THEN IncognitoAttributes(mainWindow')
          ELSE NormalAttributes(mainWindow')]_vars

C15_HideThenShowRestores == C15_HideKeepsFlag /\ C15_ShowRestores

C15_Witness == ShownAfterHide /\ Shown /\ isIncognitoMode

\* ------------------------------------------------------------------ C16
\* C16: hideWindow is idempotent.  A hideWindow that directly follows a
\* hideWindow leaves the window's attributes and visibility, the incognito
\* flag and the shortcut-registration state exactly as the first one left
\* them.
HiddenTwice == {"hideWindow", "afterHideWindow"} \subseteq calls

C16_HideIsIdempotent ==
  [][("hideWindow" \in calls /\ "hideWindow" \in calls') =>
       /\ mainWindow' = mainWindow
       /\ isIncognitoMode' = isIncognitoMode
       /\ smVars' = smVars]_vars

C16_Witness ==
  /\ HiddenTwice
  /\ Hidden
  /\ shortcutManager
  /\ shortcutsDisabled
  /\ registeredShortcuts = {"TOGGLE_VISIBILITY"}

\* ------------------------------------------------------------------ C17
\* C17: in the application as AIAssistantApp wires it, the shortcuts other
\* than toggle-visibility are registered exactly when the window is shown:
\* all six are registered while it is shown, and none but toggle-visibility
\* while it is hidden.
C17_ShortcutsFollowVisibility ==
  mainWindow.exists =>
    IF Shown THEN registeredShortcuts = Shortcuts
    ELSE registeredShortcuts \cap (Shortcuts \ {"TOGGLE_VISIBILITY"}) = {}

\* ------------------------------------------------------------------ C18
\* C18: every window creation, at application start and after the window
\* was destroyed, yields Shown.Normal: the window is visible, the incognito
\* flag is false and the normal attribute set applies.
C18_CreationIsShownNormal ==
  [][Initialize =>
       /\ Shown'
       /\ ~isIncognitoMode'
       /\ NormalAttributes(mainWindow')]_vars

\* ------------------------------------------------------------------ C19
\* C19: when the main window is destroyed, the detection interval, the
\* pending manual-override timeout and the pending reposition-cooldown
\* timeout are all cancelled: while there is no window after a creation,
\* no interval runs and no timeout is pending.
Destroyed == inits > 0 /\ ~mainWindow.exists

C19_DestroyCancelsTimers ==
  Destroyed =>
    /\ detectionInterval < 0
    /\ manualTimers = {}
    /\ cooldownTimers = {}

\* ------------------------------------------------------------------ C20
\* C20: a platform query or command that fails at any point of a tick is
\* absorbed inside the tick: nothing propagates out of detectDesktopChanges
\* and the process does not exit.
C20_TickFailureAbsorbed == ~exited

\* ------------------------------------------------------------------ C21
\* C21: the stored focus snapshot (previousFocusedWindow) is never the
\* overlay's own main window, after any sequence of showWindowWithoutFocus,
\* moveWindow and toggleVisibility calls.
C21_SnapshotIsNotOverlay == previousFocusedWindow # MainHandle

C21_Witness ==
  /\ cycle = ShowWithoutFocusCycle
  /\ previousFocusedWindow > 0
  /\ pendingRestores > 0

\* ------------------------------------------------------------------ C22
\* C22: the deferred focus restoration never requests focus on a destroyed
\* window: when the snapshotted window was destroyed between the scheduling
\* and the callback, the callback does nothing and raises no error, so the
\* process is still running after it.
RestoreDelivered == "previousFocusedWindow.focus" \in calls

C22_RestoreSkipsDestroyed == RestoreDelivered => ~exited

\* ------------------------------------------------------------------ C23
\* C23: the focus snapshot lives for one cycle: previousFocusedWindow is
\* null once the window it refers to is destroyed, and once the restoration
\* of the cycle has been delivered.
C23_SnapshotLivesOneCycle ==
  /\ previousFocusedWindow # 0 => ~isDestroyed(previousFocusedWindow)
  /\ (RestoreDelivered /\ pendingRestores = 0) => previousFocusedWindow = 0

\* ------------------------------------------------------------------ C24
\* C24: visibility is changed only by toggleVisibility, hideWindow and the
\* show operations: moveWindow, toggleIncognitoMode, a tick and a display
\* event never turn a hidden window visible or a visible window hidden.
MoveStep == \E direction \in Directions : MoveWindow(direction)
DisplayStep == \E d \in Displays : DisplayEvent(d)

C24_OnlyShowHideChangeVisibility ==
  [][(MoveStep \/ ToggleIncognito \/ TickStep \/ DisplayStep) =>
       (mainWindow'.visible = mainWindow.visible)]_vars

\* ------------------------------------------------------------------ C25
\* C25: the DesktopFollower never repositions, shows or re-layers a hidden
\* window: when the window is not visible, a tick and a display event both
\* leave the window (position, always-on-top, visibility), the cooldown
\* and lastKnownPosition unchanged.  A step of the follower is one that
\* records detectDesktopChanges or followToCurrentDesktop.
FollowerStep == TickRan' \/ FollowRan'

C25_FollowerLeavesHiddenAlone ==
  [][(FollowerStep /\ Hidden) =>
       /\ mainWindow' = mainWindow
       /\ repositionCooldown' = repositionCooldown
       /\ cooldownTimers' = cooldownTimers
       /\ lastKnownPosition' = lastKnownPosition]_vars

C25_Witness ==
  /\ Hidden
  /\ FollowRan
  /\ ~repositionCooldown
  /\ "setPosition" \notin calls

\* ------------------------------------------------------------------ C26
\* C26: a desktop-identity change is never lost: lastKnownDesktop is
\* recorded as the new identity only by a step that actually repositions
\* the window, so that a change first seen while the cooldown is armed is
\* seen again by a later tick.
C26_DesktopRecordedOnReposition ==
  [][(lastKnownDesktop' # lastKnownDesktop) => Repositioned']_vars

\* ------------------------------------------------------------------ C27
\* C27: a display event is processed by the same algorithm as a tick:
\* for every state, handling the event leaves the window, the cooldown,
\* lastKnownPosition and lastKnownDesktop as detectDesktopChanges would,
\* run on the same state with the new display.
\* detectDesktopChanges as a function of the state: what it leaves behind.
detectDesktopChanges(display, cursor) ==
  LET base == CurrentFollower({"detectDesktopChanges"})
      mm == mouseMoved(cursor, lastMousePosition)
      dc == desktopChanged(display, lastKnownDesktop)
      followed == IF mm \/ dc
                  THEN followToCurrentDesktop(base, display, isIncognitoMode, wmSource)
                  ELSE base
  IN IF detectionSkips(mainWindow, isManualMovement)
     THEN [f |-> base, desktop |-> lastKnownDesktop]
     ELSE [f |-> ensureWindowOnTop(followed),
           desktop |-> IF dc THEN getCurrentDesktop(display) ELSE lastKnownDesktop]

C27_EventIsATick ==
  [][DisplayStep =>
       \E cursor \in CursorPoints :
         LET t == detectDesktopChanges(primaryDisplay', cursor)
         IN /\ mainWindow' = t.f.w
            /\ repositionCooldown' = t.f.cooldown
            /\ lastKnownPosition' = t.f.lkp
            /\ lastKnownDesktop' = t.desktop]_vars

\* ------------------------------------------------------------------ C28
\* C28: in every non-interactive show/reposition cycle
\* (showWindowWithoutFocus, moveWindow, automatic follow) the order is:
\* snapshot the focused window, then mutate the overlay, then restore
\* focus.  The first operation of the cycle is the snapshot, the last one
\* the restore, and the show lies between them.
ShowOps == {"show", "showInactive"}

C28_SnapshotMutateRestore ==
  cycle # <<>> =>
    /\ cycle[1] = "storeFocusedWindow"
    /\ cycle[Len(cycle)] = "restoreFocusedWindow"
    /\ \E i \in 2..(Len(cycle) - 1) : cycle[i] \in ShowOps

\* ------------------------------------------------------------------ C29
\* C29: the reposition cooldown and the manual-movement flag are
\* independent.  moveWindow and the manual-override expiry never arm or
\* clear repositionCooldown or its timeouts; a tick, a display event
\* (followToCurrentDesktop) and the cooldown expiry never set or clear
\* isManualMovement or its pending timeout.
MovedManually == moves' = moves + 1

C29_ManualLeavesCooldown ==
  [][(MovedManually \/ ManualExpire) =>
       /\ repositionCooldown' = repositionCooldown
       /\ cooldownTimers' = cooldownTimers]_vars

C29_FollowLeavesManual ==
  [][(FollowerStep \/ CooldownExpire) =>
       /\ isManualMovement' = isManualMovement
       /\ manualMovementTimeout' = manualMovementTimeout
       /\ manualTimers' = manualTimers]_vars

C29_CooldownAndManualIndependent == C29_ManualLeavesCooldown /\ C29_FollowLeavesManual

C29_Witness ==
  /\ repositionCooldown
  /\ isManualMovement
  /\ cooldownTimers # {}
  /\ manualTimers # {}
  /\ sinceManual = 0

\* ------------------------------------------------------------------ C30
\* C30: on every tick where the window is valid, shown and not manually
\* suppressed, ensureWindowOnTop runs and re-asserts always-on-top at the
\* screen-saver level, whether or not a desktop change was detected and
\* whether or not the reposition cooldown is armed.
C30_TickEnsuresOnTop ==
  [][(TickRan' /\ Shown /\ ~isManualMovement) =>
       /\ "ensureWindowOnTop" \in calls'
       /\ mainWindow'.alwaysOnTop
       /\ mainWindow'.level = "screen-saver"]_vars

C30_Witness ==
  /\ TickRan
  /\ "ensureWindowOnTop" \in calls
  /\ ~FollowRan
  /\ repositionCooldown
  /\ isIncognitoMode
  /\ mainWindow.alwaysOnTop

\* ----------------------------------------------------------------- C31
\* moveWindow got past its null check / gave the move up at one of its two
\* validations.
ManualModeSet == "setManualMovementMode" \in calls
MoveRejected == ManualModeSet /\ cycle = <<>>

\* C31: every moveWindow on an existing window, accepted or rejected, sets
\* the manual-movement flag and leaves exactly the countdown it has just
\* started pending, with the full duration to run; a rejected move leaves
\* the window and lastKnownPosition as they were; and until the full
\* duration has passed since the move the flag is set, so that no tick in
\* between runs followToCurrentDesktop.
C31_MoveArmsBeforeValidation ==
  (MovedManually /\ mainWindow.exists) =>
    /\ isManualMovement'
    /\ sinceManual' = 0
    /\ \E t \in manualTimers' :
         /\ t.id = manualMovementTimeout'
         /\ t.remaining = MANUAL_MOVEMENT_TIMEOUT
    /\ MoveRejected' => (mainWindow' = mainWindow
                           /\ lastKnownPosition' = lastKnownPosition)

C31_SuppressedForFullDuration ==
  (sinceManual >= 0 /\ sinceManual < MANUAL_MOVEMENT_TIMEOUT) => isManualMovement

C31_SuppressedTick == (TickRan' /\ isManualMovement) => ~FollowRan'

C31_RejectedMoveStillSuppresses ==
  /\ []C31_SuppressedForFullDuration
  /\ [][C31_MoveArmsBeforeValidation /\ C31_SuppressedTick]_vars

\* A move has just been rejected on the display of zero size, with the
\* window shown: the flag is set and the countdown it started has the full
\* duration to run.
C31_Witness ==
  /\ MoveRejected
  /\ Shown
  /\ primaryDisplay = DZero
  /\ isManualMovement
  /\ sinceManual = 0
  /\ \E t \in manualTimers : t.remaining = MANUAL_MOVEMENT_TIMEOUT

\* ----------------------------------------------------------------- C32
\* The position moveWindow computes for direction from the state before
\* the step.
MoveTarget(direction) ==
  calculateNewPosition(direction, [x |-> mainWindow.x, y |-> mainWindow.y],
                       primaryDisplay,
                       [width |-> WINDOW_WIDTH, height |-> WINDOW_HEIGHT])

\* C32: a moveWindow whose clamped result has a negative x or y changes
\* neither the window nor lastKnownPosition, and a moveWindow that does set
\* the position sets one with both coordinates non-negative and stores that
\* one as lastKnownPosition.
C32_NegativeTargetSkipped ==
  \A direction \in Directions :
    (MoveWindow(direction) /\ mainWindow.exists
       /\ (MoveTarget(direction).x < 0 \/ MoveTarget(direction).y < 0)) =>
      /\ MoveRejected'
      /\ mainWindow' = mainWindow
      /\ lastKnownPosition' = lastKnownPosition

C32_AcceptedTargetNonNegative ==
  (MovedManually /\ mainWindow.exists /\ ~MoveRejected') =>
    /\ mainWindow'.x >= 0
    /\ mainWindow'.y >= 0
    /\ lastKnownPosition' = [x |-> mainWindow'.x, y |-> mainWindow'.y]

C32_NoNegativeTarget ==
  [][C32_NegativeTargetSkipped /\ C32_AcceptedTargetNonNegative]_vars

\* A move has just been rejected on the display left of the origin, whose
\* bounds are valid: the clamped target of every direction has a negative x.
C32_Witness ==
  /\ MoveRejected
  /\ primaryDisplay = DLeft
  /\ validateBounds(primaryDisplay, [width |-> WINDOW_WIDTH, height |-> WINDOW_HEIGHT])
  /\ \A direction \in Directions : MoveTarget(direction).x < 0

\* ----------------------------------------------------------------- C33
\* No detection interval is running: stopDetection was the last of
\* startDetection / stopDetection to be called.
DetectionStopped == inits > 0 /\ detectionInterval < 0

\* C33: a step that starts with detection stopped does not reposition the
\* window automatically.
C33_StoppedMeansNoFollow ==
  [][DetectionStopped => ~Repositioned']_vars

\* ----------------------------------------------------------------- C34
\* cleanup was the handler that ran last.
CleanupRan == "cleanup" \in calls

\* C34: once cleanup has asked the main window to close, the window is
\* eventually destroyed and mainWindow is null.
C34_CleanupDestroysWindow == CleanupRan ~> ~mainWindow.exists

\* ----------------------------------------------------------------- C35
\* C35: a step that registers all shortcuts leaves the toggle-visibility
\* shortcut registered, and while the shortcuts are disabled and the
\* callback of toggle-visibility is stored, that shortcut is registered.
C35_RegisteredAfterRegisterAll ==
  (inits' = inits + 1) => ("TOGGLE_VISIBILITY" \in registeredShortcuts')

C35_KeptWhileDisabled ==
  (shortcutsDisabled /\ "TOGGLE_VISIBILITY" \in shortcutCallbacks)
    => "TOGGLE_VISIBILITY" \in registeredShortcuts

C35_VisibilityToggleRegistered ==
  /\ []C35_KeptWhileDisabled
  /\ [][C35_RegisteredAfterRegisterAll]_vars

\* ----------------------------------------------------------------- C36
\* toggleIncognitoMode was the handler, and one of its setters threw.
ToggleThrew ==
  \E n \in DOMAIN SetterPoints :
    calls = {"toggleIncognitoMode", SetterPoints[n] \o " throws"}

\* C36: a toggleIncognitoMode in which a setter throws leaves the incognito
\* flag at the value it had before.
C36_FailedToggleKeepsFlag ==
  [][ToggleThrew' => (isIncognitoMode' = isIncognitoMode)]_vars

\* ----------------------------------------------------------------- C37
\* The four attributes the two modes differ in, as the mode sets them.
SettingsInMode(sw, incognito) ==
  /\ sw.contentProtection = incognito
  /\ sw.skipTaskbar = incognito
  /\ sw.alwaysOnTop = ~incognito
  /\ sw.opacity = (IF incognito THEN INCOGNITO_OPACITY ELSE FULL_OPACITY)

\* C37: while a settings window exists, its content protection, opacity,
\* skip-taskbar and always-on-top attributes are those of the mode the
\* incognito flag names.
C37_SettingsFollowMode ==
  settingsWindow # 0 => SettingsInMode(settingsAttributes, isIncognitoMode)

\* ----------------------------------------------------------------- C38
\* C38: a save that succeeds is stored under a path no earlier successful
\* save was stored under, so there are as many such paths as successful
\* saves.
C38_SaveNeverOverwrites ==
  /\ [](Cardinality(savedPaths) = saves)
  /\ [][(saves' = saves + 1) =>
          (\A r \in pendingSaves \ pendingSaves' :
             [dir |-> r.dir, name |-> r.name] \notin savedPaths)]_vars

=============================================================================
